---- MODULE Spec2Model ----
(***************************************************************************)
(* The persisted state managers of the launcher backend: CapeManager      *)
(* (state/cape_state.rs) and ConfigManager (state/config_state.rs).        *)
(* Each manager owns one document behind a tokio RwLock, one backing file  *)
(* and one tokio Mutex (save_lock) that serializes persists.  Command      *)
(* handlers and the readiness callback run as concurrent tasks; every      *)
(* .await on a lock or on file I/O is a step of its own.                   *)
(***************************************************************************)
EXTENDS Integers, Sequences, FiniteSets, TLC

(* ---------------------------------------------------------------- bounds *)
\* Number of commands invoked in one run, each run by a task of its own; any
\* number of them may be in flight at the same time, and with the load step.
NTasks == 2

Commands == 1..NTasks

\* The task of the post-initialization handler, which runs the load step.
\* (0 is no task: the holder of a free lock.)
Loader == NTasks + 1

Tasks == {Loader} \cup Commands
Managers == {"cape", "config"}

\* Option<T>: None is the empty sequence, Some(x) a sequence of one element.
None == <<>>
Some(x) == <<x>>

(* ------------------------------------------------------------- documents *)
CONFIG_CURRENT_VERSION == 1

default_concurrent_downloads == 5

default_concurrent_io_limit == 10

HooksDefault == [pre_launch |-> None, wrapper |-> None, post_exit |-> None]

\* impl Default for LauncherConfig
LauncherConfigDefault ==
    [version |-> CONFIG_CURRENT_VERSION,
     is_experimental |-> FALSE,
     auto_check_updates |-> TRUE,
     concurrent_downloads |-> default_concurrent_downloads,
     enable_discord_presence |-> TRUE,
     check_beta_channel |-> FALSE,
     profile_grouping_criterion |-> Some("group"),
     open_logs_after_starting |-> TRUE,
     concurrent_io_limit |-> default_concurrent_io_limit,
     last_played_profile |-> None,
     hooks |-> HooksDefault,
     hide_on_process_start |-> FALSE]

\* #[derive(Default)] CapeDatabase: an empty catalog
CapeDatabaseDefault == [capes |-> <<>>]

\* The document a manager holds after construction.
Default(m) == IF m = "cape" THEN CapeDatabaseDefault ELSE LauncherConfigDefault

(* --------------------------------------------------------- serialization *)
\* A backing file is absent, holds bytes serde_json cannot parse, or holds
\* JSON text.  JSON text is modelled as the value tree serde writes: a struct
\* becomes the tuple of its fields in declaration order.
NoFile == [kind |-> "absent"]
Garbage == [kind |-> "garbage"]

CapeToJson(c) == <<c.id, c.name, c.favorite, c.tags, c.added_at>>

\* A record type whose tags are not read back (deserialized as empty).
CapeFromJsonNoTags(j) ==
    [id |-> j[1], name |-> j[2], favorite |-> j[3], tags |-> <<>>, added_at |-> j[5]]

CapeFromJson(j) ==
    [id |-> j[1], name |-> j[2], favorite |-> j[3], tags |-> j[4], added_at |-> j[5]]

HooksToJson(h) == <<h.pre_launch, h.wrapper, h.post_exit>>

HooksFromJson(j) == [pre_launch |-> j[1], wrapper |-> j[2], post_exit |-> j[3]]

ConfigToJson(c) ==
    <<c.version, c.is_experimental, c.auto_check_updates, c.concurrent_downloads,
      c.enable_discord_presence, c.check_beta_channel, c.profile_grouping_criterion,
      c.open_logs_after_starting, c.concurrent_io_limit, c.last_played_profile,
      HooksToJson(c.hooks), c.hide_on_process_start>>

ConfigFromJson(j) ==
    [version |-> j[1],
     is_experimental |-> j[2],
     auto_check_updates |-> j[3],
     concurrent_downloads |-> j[4],
     enable_discord_presence |-> j[5],
     check_beta_channel |-> j[6],
     profile_grouping_criterion |-> j[7],
     open_logs_after_starting |-> j[8],
     concurrent_io_limit |-> j[9],
     last_played_profile |-> j[10],
     hooks |-> HooksFromJson(j[11]),
     hide_on_process_start |-> j[12]]

\* A serializer handed a fresh default value instead of the guarded document.
SerializeDefault(m, d) ==
    [kind |-> "json",
     body |-> IF m = "cape" THEN <<>> ELSE ConfigToJson(LauncherConfigDefault)]

\* serde_json::to_string_pretty(&*doc)
Serialize(m, d) ==
    [kind |-> "json",
     body |-> IF m = "cape"
              THEN [i \in 1..Len(d.capes) |-> CapeToJson(d.capes[i])]
              ELSE ConfigToJson(d)]

\* serde_json::from_str::<Doc>(&data): Ok(value) or Err
Parse(m, text) ==
    IF text.kind = "json"
    THEN [ok |-> TRUE,
          value |-> IF m = "cape"
                    THEN [capes |-> [i \in 1..Len(text.body) |-> CapeFromJson(text.body[i])]]
                    ELSE ConfigFromJson(text.body)]
    ELSE [ok |-> FALSE, value |-> Default(m)]

(* ------------------------------------------------- catalog operations *)
\* A lookup that finds the last record of the id.
PositionLast(capes, id) ==
    IF \E i \in 1..Len(capes) : capes[i].id = id
    THEN CHOOSE i \in 1..Len(capes) :
            /\ capes[i].id = id
            /\ \A j \in (i + 1)..Len(capes) : capes[j].id # id
    ELSE 0

\* capes.iter().position(|s| s.id == id): the first index, 0 for None
Position(capes, id) ==
    IF \E i \in 1..Len(capes) : capes[i].id = id
    THEN CHOOSE i \in 1..Len(capes) :
            /\ capes[i].id = id
            /\ \A j \in 1..(i - 1) : capes[j].id # id
    ELSE 0

\* An add that pushes the record whether or not its id is in the catalog.
AddCapeAlwaysPush(d, cape) == [d EXCEPT !.capes = Append(@, cape)]

\* add_saved_cape, lines 155-163: replace at the found index, else push
AddCape(d, cape) ==
    LET index == Position(d.capes, cape.id) IN
    IF index # 0
    THEN [d EXCEPT !.capes[index] = cape]
    ELSE [d EXCEPT !.capes = Append(@, cape)]

\* A removal that takes out the first record of the id only.
RemoveCapeFirst(d, id) ==
    LET index == Position(d.capes, id) IN
    IF index = 0 THEN d
    ELSE [d EXCEPT !.capes = [k \in 1..(Len(@) - 1) |-> IF k < index THEN @[k] ELSE @[k + 1]]]

\* remove_saved_cape, line 177
RemoveCape(d, id) ==
    LET keep(c) == c.id # id IN [d EXCEPT !.capes = SelectSeq(@, keep)]

\* An update that takes a name not supplied as the empty name.
SetNameOrEmpty(d, index, name) ==
    [d EXCEPT !.capes[index].name = IF name # None THEN name[1] ELSE ""]

\* update_saved_cape_properties, lines 217-225, one assignment each
SetName(d, index, name) ==
    IF name # None THEN [d EXCEPT !.capes[index].name = name[1]] ELSE d

SetFavorite(d, index, favorite) ==
    IF favorite # None THEN [d EXCEPT !.capes[index].favorite = favorite[1]] ELSE d

SetTags(d, index, tags) ==
    IF tags # None THEN [d EXCEPT !.capes[index].tags = tags[1]] ELSE d

\* A toggle that marks the record as a favorite whatever it was.
ToggleFavoriteSets(d, index) == [d EXCEPT !.capes[index].favorite = TRUE]

\* toggle_favorite, line 250
ToggleFavorite(d, index) == [d EXCEPT !.capes[index].favorite = ~@]

\* add_tag_to_cape, lines 308-313
AddTag(d, index, tag) ==
    IF ~(\E i \in 1..Len(d.capes[index].tags) : d.capes[index].tags[i] = tag)
    THEN [d EXCEPT !.capes[index].tags = Append(@, tag)]
    ELSE d

\* remove_tag_from_cape, line 337
RemoveTag(d, index, tag) ==
    LET keep(x) == x # tag IN [d EXCEPT !.capes[index].tags = SelectSeq(@, keep)]

\* A comparison that takes the version into account as well.
SameSettingsAndVersion(current, new_config) == current = new_config

\* A replacement that takes the caller's record as it is.
ReplaceConfigWhole(current, new_config) == new_config

(* ------------------------------------------------ configuration update *)
\* set_config, lines 194-204: every field but version is compared
SameSettings(current, new_config) ==
    /\ current.is_experimental = new_config.is_experimental
    /\ current.auto_check_updates = new_config.auto_check_updates
    /\ current.concurrent_downloads = new_config.concurrent_downloads
    /\ current.enable_discord_presence = new_config.enable_discord_presence
    /\ current.check_beta_channel = new_config.check_beta_channel
    /\ current.profile_grouping_criterion = new_config.profile_grouping_criterion
    /\ current.open_logs_after_starting = new_config.open_logs_after_starting
    /\ current.concurrent_io_limit = new_config.concurrent_io_limit
    /\ current.last_played_profile = new_config.last_played_profile
    /\ current.hooks = new_config.hooks
    /\ current.hide_on_process_start = new_config.hide_on_process_start

\* set_config, lines 210 and 281-294: the new record with the old version
ReplaceConfig(current, new_config) == [new_config EXCEPT !.version = current.version]

(* ------------------------------------------------------------ queries *)
HasTag(c, tag) == \E i \in 1..Len(c.tags) : c.tags[i] = tag

\* Queries of which get_favorite_capes stops at the first favorite.
QueryFirstFavorite(o, d) ==
    CASE o.kind = "get_all_saved_capes" -> d.capes
      [] o.kind = "get_saved_cape_by_id" ->
            LET index == Position(d.capes, o.id) IN
            IF index # 0 THEN Some(d.capes[index]) ELSE None
      [] o.kind = "get_favorite_capes" ->
            LET fav(c) == c.favorite
                all == SelectSeq(d.capes, fav)
            IN  IF all = <<>> THEN all ELSE <<all[1]>>
      [] o.kind = "get_capes_by_tag" ->
            LET tagged(c) == HasTag(c, o.tag) IN SelectSeq(d.capes, tagged)
      [] o.kind = "get_config" -> Some(d)
      [] o.kind = "is_experimental_mode" -> Some(d.is_experimental)

\* What a read operation computes from the document it sees under the read
\* lock; the value it returns is a clone.
Query(o, d) ==
    CASE o.kind = "get_all_saved_capes" -> d.capes
      [] o.kind = "get_saved_cape_by_id" ->
            LET index == Position(d.capes, o.id) IN
            IF index # 0 THEN Some(d.capes[index]) ELSE None
      [] o.kind = "get_favorite_capes" ->
            LET fav(c) == c.favorite IN SelectSeq(d.capes, fav)
      [] o.kind = "get_capes_by_tag" ->
            LET tagged(c) == HasTag(c, o.tag) IN SelectSeq(d.capes, tagged)
      [] o.kind = "get_config" -> Some(d)
      [] o.kind = "is_experimental_mode" -> Some(d.is_experimental)

\* The effect on the document of one mutating operation run alone, from its
\* write().await to the drop of its write guard.
ApplyOp(d, o) ==
    CASE o.kind = "add_saved_cape" -> AddCape(d, o.cape)
      [] o.kind = "remove_saved_cape" -> RemoveCape(d, o.id)
      [] o.kind = "update_saved_cape_properties" ->
            LET index == Position(d.capes, o.id) IN
            IF index = 0 THEN d
            ELSE SetTags(SetFavorite(SetName(d, index, o.name), index, o.favorite),
                         index, o.tags)
      [] o.kind = "toggle_favorite" ->
            LET index == Position(d.capes, o.id) IN
            IF index = 0 THEN d ELSE ToggleFavorite(d, index)
      [] o.kind = "add_tag_to_cape" ->
            LET index == Position(d.capes, o.id) IN
            IF index = 0 THEN d ELSE AddTag(d, index, o.tag)
      [] o.kind = "remove_tag_from_cape" ->
            LET index == Position(d.capes, o.id) IN
            IF index = 0 THEN d ELSE RemoveTag(d, index, o.tag)
      [] o.kind = "set_config" ->
            IF SameSettings(d, o.new_config) THEN d ELSE ReplaceConfig(d, o.new_config)

(* -------------------------------------------------------------- locks *)
\* tokio::sync::RwLock: one writer or any number of readers; waiters are
\* served first-in first-out, so a reader that arrives behind a waiting writer
\* waits for it (the lock is write-preferring).
RwLockNew == [writer |-> 0, readers |-> {}, queue |-> <<>>]

\* A lock whose writers exclude readers but not each other.
RwWritersShare(l, mode) ==
    IF mode = "write" THEN l.readers = {} ELSE l.writer = 0

\* A lock whose readers are admitted while a writer holds it.
RwReadersIgnoreWriter(l, mode) ==
    IF mode = "write" THEN l.writer = 0 /\ l.readers = {} ELSE TRUE

RwCompatible(l, mode) ==
    IF mode = "write" THEN l.writer = 0 /\ l.readers = {} ELSE l.writer = 0

\* read().await / write().await is reached: the task joins the queue
RwRequest(l, t, mode) == [l EXCEPT !.queue = Append(@, [t |-> t, mode |-> mode])]

\* the await completes: the task is at the head and the lock admits its mode
RwCanAcquire(l, t) ==
    /\ l.queue # <<>>
    /\ Head(l.queue).t = t
    /\ RwCompatible(l, Head(l.queue).mode)

RwAcquire(l, t) ==
    IF Head(l.queue).mode = "write"
    THEN [l EXCEPT !.queue = Tail(@), !.writer = t]
    ELSE [l EXCEPT !.queue = Tail(@), !.readers = @ \cup {t}]

\* the guard is dropped
RwRelease(l, t) ==
    [l EXCEPT !.writer = IF @ = t THEN 0 ELSE @, !.readers = @ \ {t}]

\* tokio::sync::Mutex<()>: one holder, waiters served first-in first-out
MutexNew == [holder |-> 0, queue |-> <<>>]

MutexRequest(l, t) == [l EXCEPT !.queue = Append(@, t)]

\* A mutex that admits its first waiter while it is held.
MutexNoExclusion(l, t) == l.queue # <<>> /\ Head(l.queue) = t

MutexCanAcquire(l, t) == l.queue # <<>> /\ Head(l.queue) = t /\ l.holder = 0

MutexAcquire(l, t) == [l EXCEPT !.queue = Tail(@), !.holder = t]

MutexRelease(l, t) == [l EXCEPT !.holder = IF @ = t THEN 0 ELSE @]

(* -------------------------------------------------------------- inputs *)
CapeA == [id |-> 1, name |-> "a", favorite |-> FALSE, tags |-> <<>>, added_at |-> 0]

CapeA2 == [id |-> 1, name |-> "c", favorite |-> TRUE, tags |-> <<"y">>, added_at |-> 1]

CapeB == [id |-> 2, name |-> "b", favorite |-> TRUE, tags |-> <<"x">>, added_at |-> 1]

ConfigX == [LauncherConfigDefault EXCEPT !.is_experimental = TRUE, !.version = 7]

ConfigY == [LauncherConfigDefault EXCEPT !.enable_discord_presence = FALSE,
                                         !.hooks.wrapper = Some("w")]

\* What the backing file may hold when the process starts.
InitFiles(m) ==
    IF m = "cape"
    THEN {NoFile, Garbage, Serialize(m, [capes |-> <<CapeA>>])}
    ELSE {NoFile, Garbage, Serialize(m, [ConfigX EXCEPT !.version = 2])}

\* The mutating operations the command layer invokes, with their arguments.
Mutations(m) ==
    IF m = "cape"
    THEN {[kind |-> "add_saved_cape", m |-> m, cape |-> c] : c \in {CapeA2, CapeB}}
         \cup {[kind |-> "remove_saved_cape", m |-> m, id |-> 1]}
         \cup {[kind |-> "update_saved_cape_properties", m |-> m, id |-> 1,
                name |-> Some("b"), favorite |-> Some(TRUE), tags |-> Some(<<"x">>)]}
         \cup {[kind |-> "toggle_favorite", m |-> m, id |-> 1]}
         \cup {[kind |-> "add_tag_to_cape", m |-> m, id |-> 1, tag |-> "x"]}
         \cup {[kind |-> "remove_tag_from_cape", m |-> m, id |-> 1, tag |-> "x"]}
    ELSE {[kind |-> "set_config", m |-> m, new_config |-> c] :
             c \in {ConfigX, ConfigY}}

\* The read operations.
Reads(m) ==
    IF m = "cape"
    THEN {[kind |-> "get_all_saved_capes", m |-> m],
          [kind |-> "get_saved_cape_by_id", m |-> m, id |-> 1],
          [kind |-> "get_favorite_capes", m |-> m],
          [kind |-> "get_capes_by_tag", m |-> m, tag |-> "x"]}
    ELSE {[kind |-> "get_config", m |-> m],
          [kind |-> "is_experimental_mode", m |-> m]}

\* on_state_ready -> load_capes_internal / load_config_internal
LoadOp(m) == [kind |-> "load", m |-> m]

NoOp == [kind |-> "none", m |-> "none"]

NoRet == [status |-> "none", val |-> <<>>]

(* --------------------------------------------------------------- state *)
VARIABLES
    doc,         \* doc[m]: the document inside the manager's RwLock
    file,        \* file[m]: the content of the manager's backing file
    dir_exists,  \* whether the launcher directory (the files' parent) exists
    rw,          \* rw[m]: the document's RwLock
    save_lock,   \* save_lock[m]: the manager's save Mutex
    discord,     \* the value last given to discord_manager.set_enabled
    pc,          \* pc[t]: where task t stands in its operation
    op,          \* op[t]: the operation task t runs, with its arguments
    idx,         \* idx[t]: the index update_saved_cape_properties found
    data,        \* data[t]: capes_data / config_data of load and save
    ret,         \* ret[t]: the result the operation returns
    scope,       \* the managers the operations of this run address
    found,       \* found[m]: what the load step found at the backing path
    serial,      \* serial[m]: the committed operations applied one after another
    ver,         \* ver[m]: number of commits to doc[m]
    cseq,        \* cseq[t]: the number of task t's commit, 0 before it
    wseq,        \* wseq[t]: the number of task t's file write, 0 before it
    presence_changed,  \* presence_changed[t]: set_config t changed enable_discord_presence
    notified,    \* notified[t]: set_config t called discord_manager.set_enabled
    raced,       \* raced[t]: t committed while the load step held the text it read
    snap,        \* snap[t]: the number of the commit whose document t's save
                 \* has serialized and is writing, 0 otherwise
    fver         \* fver[m]: the number of the commit whose document the file holds

vars == <<doc, file, dir_exists, rw, save_lock, discord, pc, op, idx, data, ret,
          scope, found, serial, ver, cseq, wseq, presence_changed, notified,
          raced, snap, fver>>

\* A construction that reads the backing file when there is one.
InitManagersEager ==
    /\ doc = [m \in Managers |-> Parse(m, file[m]).value]
    /\ rw = [m \in Managers |-> RwLockNew]
    /\ save_lock = [m \in Managers |-> MutexNew]
    /\ discord = None
    /\ pc = [t \in Tasks |-> "idle"]
    /\ op = [t \in Tasks |-> NoOp]
    /\ idx = [t \in Tasks |-> 0]
    /\ data = [t \in Tasks |-> NoFile]
    /\ ret = [t \in Tasks |-> NoRet]
    /\ found = [m \in Managers |-> "unread"]
    /\ serial = [m \in Managers |-> Parse(m, file[m]).value]
    /\ ver = [m \in Managers |-> 0]
    /\ cseq = [t \in Tasks |-> 0]
    /\ wseq = [t \in Tasks |-> 0]
    /\ presence_changed = [t \in Tasks |-> FALSE]
    /\ notified = [t \in Tasks |-> FALSE]
    /\ raced = [t \in Tasks |-> FALSE]
    /\ snap = [t \in Tasks |-> 0]
    /\ fver = [m \in Managers |-> 0]

\* CapeManager::new / ConfigManager::new: the default document, fresh locks,
\* no file touched.
InitManagers ==
    /\ doc = [m \in Managers |-> Default(m)]
    /\ rw = [m \in Managers |-> RwLockNew]
    /\ save_lock = [m \in Managers |-> MutexNew]
    /\ discord = None
    /\ pc = [t \in Tasks |-> "idle"]
    /\ op = [t \in Tasks |-> NoOp]
    /\ idx = [t \in Tasks |-> 0]
    /\ data = [t \in Tasks |-> NoFile]
    /\ ret = [t \in Tasks |-> NoRet]
    /\ found = [m \in Managers |-> "unread"]
    /\ serial = [m \in Managers |-> Default(m)]
    /\ ver = [m \in Managers |-> 0]
    /\ cseq = [t \in Tasks |-> 0]
    /\ wseq = [t \in Tasks |-> 0]
    /\ presence_changed = [t \in Tasks |-> FALSE]
    /\ notified = [t \in Tasks |-> FALSE]
    /\ raced = [t \in Tasks |-> FALSE]
    /\ snap = [t \in Tasks |-> 0]
    /\ fver = [m \in Managers |-> 0]

\* The file system as the process finds it: a file implies its directory.
InitDisk ==
    /\ \E fc \in (IF "cape" \in scope THEN InitFiles("cape") ELSE {NoFile}) :
       \E fg \in (IF "config" \in scope THEN InitFiles("config") ELSE {NoFile}) :
          file = [m \in Managers |-> IF m = "cape" THEN fc ELSE fg]
    /\ dir_exists \in BOOLEAN
    /\ (\E m \in Managers : file[m] # NoFile) => dir_exists

Init ==
    /\ scope \in {{m} : m \in Managers}
    /\ InitDisk
    /\ InitManagers

(* ------------------------------------------------------------ helpers *)
\* The next command is run by the lowest command task that has not run one
\* yet (the command tasks are interchangeable).
CanInvoke(t) ==
    /\ t \in Commands
    /\ pc[t] = "idle"
    /\ \A u \in Commands : u < t => pc[u] # "idle"

IsMutation(o) ==
    o.kind \in {"add_saved_cape", "remove_saved_cape", "update_saved_cape_properties",
                "toggle_favorite", "add_tag_to_cape", "remove_tag_from_cape", "set_config"}

\* A write guard that stays alive into the save call.
DropGuardMissing(l, t) == l

\* drop(capes) / the end of set_config's block: the write guard is released
DropGuard(l, t) == RwRelease(l, t)

\* write().await completes, the code up to the drop of the guard runs without
\* a suspension point, and the guard is dropped.
WriteAndDrop(m, t) == [rw EXCEPT ![m] = DropGuard(RwAcquire(@, t), t)]

\* The drop of a mutation's write guard commits it: the operation joins the
\* serial history.
Commit(t, m) ==
    /\ serial' = [serial EXCEPT ![m] = ApplyOp(@, op[t])]
    /\ ver' = [ver EXCEPT ![m] = @ + 1]
    /\ cseq' = [cseq EXCEPT ![t] = ver[m] + 1]
    /\ raced' = [raced EXCEPT ![t] = op[Loader].m = m /\ pc[Loader] = "w_wait"]

NoCommit == UNCHANGED <<serial, ver, cseq, raced>>

\* The number the next successful write of manager m's file gets.
NextWrite(m) ==
    LET written == {wseq[u] : u \in {v \in Tasks : op[v].m = m}} \cup {0}
    IN  1 + CHOOSE n \in written : \A k \in written : k <= n

\* A set_config that goes on to the notifier after a failed save as well.
AfterSaveNotifyAnyway(t, ok) ==
    /\ pc' = [pc EXCEPT ![t] = IF op[t].kind = "set_config" THEN "notify" ELSE "done"]
    /\ ret' = [ret EXCEPT ![t].status = IF ok THEN "ok" ELSE "err"]

\* A save whose error is dropped: the operation goes on as after a success.
AfterSaveAlwaysOk(t, ok) ==
    /\ pc' = [pc EXCEPT ![t] = IF op[t].kind = "set_config" THEN "notify" ELSE "done"]
    /\ ret' = [ret EXCEPT ![t].status = "ok"]

\* Where an operation goes on when its save_capes / save_config call returned.
AfterSave(t, ok) ==
    /\ pc' = [pc EXCEPT ![t] = IF ok /\ op[t].kind = "set_config" THEN "notify" ELSE "done"]
    /\ ret' = [ret EXCEPT ![t].status = IF ok THEN "ok" ELSE "err"]

(* ----------------------------------------------------------- invocation *)
\* A mutating command starts: its first await is self.capes.write() /
\* self.config.write().
CallMutation(t) ==
    /\ CanInvoke(t)
    /\ \E m \in scope : \E o \in Mutations(m) :
        /\ op' = [op EXCEPT ![t] = o]
        /\ rw' = [rw EXCEPT ![m] = RwRequest(@, t, "write")]
    /\ pc' = [pc EXCEPT ![t] = "w_wait"]
    /\ UNCHANGED <<presence_changed, notified, doc, file, fver, dir_exists,
                   save_lock, discord, idx, data, ret, scope, wseq, snap, found,
                   serial, ver, cseq, raced>>

\* A read command starts: its first await is read().
CallRead(t) ==
    /\ CanInvoke(t)
    /\ \E m \in scope : \E o \in Reads(m) :
        /\ op' = [op EXCEPT ![t] = o]
        /\ rw' = [rw EXCEPT ![m] = RwRequest(@, t, "read")]
    /\ pc' = [pc EXCEPT ![t] = "r_wait"]
    /\ UNCHANGED <<presence_changed, notified, doc, file, fver, dir_exists,
                   save_lock, discord, idx, data, ret, scope, wseq, snap, found,
                   serial, ver, cseq, raced>>

\* A load step that returns Ok(()) for an absent file without the save.
CallLoadNoSave(t) ==
    /\ t = Loader
    /\ pc[t] = "idle"
    /\ \E m \in scope :
        /\ op' = [op EXCEPT ![t] = LoadOp(m)]
        /\ pc' = [pc EXCEPT ![t] = IF file[m] = NoFile THEN "done" ELSE "l_reading"]
        /\ ret' = [ret EXCEPT ![t].status = IF file[m] = NoFile THEN "ok" ELSE @]
        /\ found' = [found EXCEPT ![m] = IF file[m] = NoFile THEN "absent" ELSE "present"]
    /\ UNCHANGED <<presence_changed, notified, doc, file, fver, dir_exists, rw,
                   save_lock, discord, idx, data, scope, wseq, snap, serial,
                   ver, cseq, raced>>

\* on_state_ready calls the load step, which first tests path.exists(): an
\* absent file leads to the save of what is in memory, a present one to
\* read_to_string.
CallLoad(t) ==
    /\ t = Loader
    /\ pc[t] = "idle"
    /\ \E m \in scope :
        /\ op' = [op EXCEPT ![t] = LoadOp(m)]
        /\ pc' = [pc EXCEPT ![t] = IF file[m] = NoFile THEN "s_call" ELSE "l_reading"]
        /\ found' = [found EXCEPT ![m] = IF file[m] = NoFile THEN "absent" ELSE "present"]
    /\ UNCHANGED <<presence_changed, notified, doc, file, fver, dir_exists, rw,
                   save_lock, discord, idx, data, ret, scope, wseq, snap,
                   serial, ver, cseq, raced>>

(* ----------------------------------------------------------------- load *)
\* A load step that logs a parse error and returns Ok(()) without the save.
ReadFileDoneNoRepair(t) ==
    /\ pc[t] = "l_reading"
    /\ LET m == op[t].m IN
       \E io_ok \in BOOLEAN :
          IF ~io_ok
          THEN /\ pc' = [pc EXCEPT ![t] = "done"]
               /\ ret' = [ret EXCEPT ![t].status = "err"]
               /\ found' = [found EXCEPT ![m] = "unreadable"]
               /\ UNCHANGED <<data, rw>>
          ELSE /\ data' = [data EXCEPT ![t] = file[m]]
               /\ IF Parse(m, file[m]).ok
                  THEN /\ rw' = [rw EXCEPT ![m] = RwRequest(@, t, "write")]
                       /\ pc' = [pc EXCEPT ![t] = "w_wait"]
                       /\ found' = [found EXCEPT ![m] = "document"]
                       /\ UNCHANGED ret
                  ELSE /\ pc' = [pc EXCEPT ![t] = "done"]
                       /\ ret' = [ret EXCEPT ![t].status = "ok"]
                       /\ found' = [found EXCEPT ![m] = "corrupt"]
                       /\ UNCHANGED rw
    /\ UNCHANGED <<presence_changed, notified, doc, file, fver, dir_exists,
                   save_lock, discord, op, idx, scope, wseq, snap, serial, ver,
                   cseq, raced>>

\* fs::read_to_string returns.  An I/O error leaves the load step through `?`.
\* Otherwise the text is parsed: Ok goes on to write().await, Err to the save
\* that repairs the file.
ReadFileDone(t) ==
    /\ pc[t] = "l_reading"
    /\ LET m == op[t].m IN
       \E io_ok \in BOOLEAN :
          IF ~io_ok
          THEN /\ pc' = [pc EXCEPT ![t] = "done"]
               /\ ret' = [ret EXCEPT ![t].status = "err"]
               /\ found' = [found EXCEPT ![m] = "unreadable"]
               /\ UNCHANGED <<data, rw>>
          ELSE /\ data' = [data EXCEPT ![t] = file[m]]
               /\ IF Parse(m, file[m]).ok
                  THEN /\ rw' = [rw EXCEPT ![m] = RwRequest(@, t, "write")]
                       /\ pc' = [pc EXCEPT ![t] = "w_wait"]
                       /\ found' = [found EXCEPT ![m] = "document"]
                  ELSE /\ pc' = [pc EXCEPT ![t] = "s_call"]
                       /\ found' = [found EXCEPT ![m] = "corrupt"]
                       /\ UNCHANGED rw
               /\ UNCHANGED ret
    /\ UNCHANGED <<presence_changed, notified, doc, file, fver, dir_exists,
                   save_lock, discord, op, idx, scope, wseq, snap, serial, ver,
                   cseq, raced>>

\* A load step that adds the loaded catalog to the one in memory.
LoadReplaceMerge(t) ==
    /\ pc[t] = "w_wait"
    /\ op[t].kind = "load"
    /\ RwCanAcquire(rw[op[t].m], t)
    /\ LET m == op[t].m
           loaded == Parse(m, data[t]).value
           merged == IF m = "cape" THEN [capes |-> doc[m].capes \o loaded.capes] ELSE loaded
       IN
        /\ doc' = [doc EXCEPT ![m] = merged]
        /\ rw' = [rw EXCEPT ![m] = RwRelease(RwAcquire(@, t), t)]
        /\ serial' = [serial EXCEPT ![m] = merged]
        /\ ver' = [ver EXCEPT ![m] = @ + 1]
    /\ data' = [data EXCEPT ![t] = NoFile]
    /\ pc' = [pc EXCEPT ![t] = "done"]
    /\ ret' = [ret EXCEPT ![t].status = "ok"]
    /\ UNCHANGED <<presence_changed, notified, file, fver, dir_exists,
                   save_lock, discord, op, idx, scope, wseq, snap, found, cseq,
                   raced>>

\* write().await completes; *capes = loaded_capes; the guard and the text
\* read are dropped at the end of the match arm and of the function.
LoadReplace(t) ==
    /\ pc[t] = "w_wait"
    /\ op[t].kind = "load"
    /\ RwCanAcquire(rw[op[t].m], t)
    /\ LET m == op[t].m IN
        /\ doc' = [doc EXCEPT ![m] = Parse(m, data[t]).value]
        /\ rw' = [rw EXCEPT ![m] = RwRelease(RwAcquire(@, t), t)]
        /\ serial' = [serial EXCEPT ![m] = Parse(m, data[t]).value]
        /\ ver' = [ver EXCEPT ![m] = @ + 1]
    /\ data' = [data EXCEPT ![t] = NoFile]
    /\ pc' = [pc EXCEPT ![t] = "done"]
    /\ ret' = [ret EXCEPT ![t].status = "ok"]
    /\ UNCHANGED <<presence_changed, notified, file, fver, dir_exists,
                   save_lock, discord, op, idx, scope, wseq, snap, found, cseq,
                   raced>>

(* ------------------------------------------------- critical sections *)
\* add_saved_cape, lines 152-166: write().await completes, upsert, drop(capes)
AddSavedCape(t) ==
    /\ pc[t] = "w_wait"
    /\ op[t].kind = "add_saved_cape"
    /\ RwCanAcquire(rw[op[t].m], t)
    /\ LET m == op[t].m IN
        /\ doc' = [doc EXCEPT ![m] = AddCape(@, op[t].cape)]
        /\ rw' = WriteAndDrop(m, t)
        /\ Commit(t, m)
    /\ pc' = [pc EXCEPT ![t] = "s_call"]
    /\ UNCHANGED <<presence_changed, notified, file, fver, dir_exists,
                   save_lock, discord, op, idx, data, ret, scope, wseq, snap,
                   found>>

\* remove_saved_cape, lines 176-190: retain, then save only when the catalog
\* got shorter; otherwise the guard is dropped on return of Ok(false)
RemoveSavedCape(t) ==
    /\ pc[t] = "w_wait"
    /\ op[t].kind = "remove_saved_cape"
    /\ RwCanAcquire(rw[op[t].m], t)
    /\ LET m == op[t].m
           after == RemoveCape(doc[m], op[t].id)
           removed == Len(after.capes) < Len(doc[m].capes)
       IN
        /\ doc' = [doc EXCEPT ![m] = after]
        /\ rw' = WriteAndDrop(m, t)
        /\ IF removed
           THEN /\ Commit(t, m)
                /\ pc' = [pc EXCEPT ![t] = "s_call"]
                /\ ret' = [ret EXCEPT ![t].val = <<TRUE>>]
           ELSE /\ NoCommit
                /\ pc' = [pc EXCEPT ![t] = "done"]
                /\ ret' = [ret EXCEPT ![t] = [status |-> "ok", val |-> <<FALSE>>]]
    /\ UNCHANGED <<presence_changed, notified, file, fver, dir_exists,
                   save_lock, discord, op, idx, data, scope, wseq, snap, found>>

\* update_saved_cape_properties, lines 212-219: write().await completes, the
\* record is looked up and its name assigned; without a record the operation
\* returns Ok(None).  The three assignments are steps of their own, so that a
\* document between two of them is a state of the model.
UpdateName(t) ==
    /\ pc[t] = "w_wait"
    /\ op[t].kind = "update_saved_cape_properties"
    /\ RwCanAcquire(rw[op[t].m], t)
    /\ LET m == op[t].m
           index == Position(doc[m].capes, op[t].id)
       IN
        IF index = 0
        THEN /\ rw' = WriteAndDrop(m, t)
             /\ pc' = [pc EXCEPT ![t] = "done"]
             /\ ret' = [ret EXCEPT ![t] = [status |-> "ok", val |-> None]]
             /\ UNCHANGED <<doc, idx>>
        ELSE /\ rw' = [rw EXCEPT ![m] = RwAcquire(@, t)]
             /\ doc' = [doc EXCEPT ![m] = SetName(@, index, op[t].name)]
             /\ idx' = [idx EXCEPT ![t] = index]
             /\ pc' = [pc EXCEPT ![t] = "w_favorite"]
             /\ UNCHANGED ret
    /\ NoCommit
    /\ UNCHANGED <<presence_changed, notified, file, fver, dir_exists,
                   save_lock, discord, op, data, scope, wseq, snap, found>>

\* lines 220-222 (capes.capes[index] panics on an index out of bounds)
UpdateFavorite(t) ==
    /\ pc[t] = "w_favorite"
    /\ idx[t] \in 1..Len(doc[op[t].m].capes)
    /\ doc' = [doc EXCEPT ![op[t].m] = SetFavorite(@, idx[t], op[t].favorite)]
    /\ pc' = [pc EXCEPT ![t] = "w_tags"]
    /\ NoCommit
    /\ UNCHANGED <<presence_changed, notified, file, fver, dir_exists, rw,
                   save_lock, discord, op, idx, data, ret, scope, wseq, snap,
                   found>>

\* lines 223-231: the tags are assigned, the record cloned, the guard dropped
UpdateTags(t) ==
    /\ pc[t] = "w_tags"
    /\ idx[t] \in 1..Len(doc[op[t].m].capes)
    /\ LET m == op[t].m
           after == SetTags(doc[m], idx[t], op[t].tags)
       IN
        /\ doc' = [doc EXCEPT ![m] = after]
        /\ ret' = [ret EXCEPT ![t].val = Some(after.capes[idx[t]])]
        /\ rw' = [rw EXCEPT ![m] = DropGuard(@, t)]
        /\ Commit(t, m)
    /\ idx' = [idx EXCEPT ![t] = 0]
    /\ pc' = [pc EXCEPT ![t] = "s_call"]
    /\ UNCHANGED <<presence_changed, notified, file, fver, dir_exists,
                   save_lock, discord, op, data, scope, wseq, snap, found>>

\* What toggle_favorite, add_tag_to_cape and remove_tag_from_cape assign at
\* the index they found.
KeyedChange(d, index, o) ==
    CASE o.kind = "toggle_favorite" -> ToggleFavorite(d, index)
      [] o.kind = "add_tag_to_cape" -> AddTag(d, index, o.tag)
      [] o.kind = "remove_tag_from_cape" -> RemoveTag(d, index, o.tag)

\* Keyed mutations that report a missing record as an error.
KeyedMutationNotFoundErr(t) ==
    /\ pc[t] = "w_wait"
    /\ op[t].kind \in {"toggle_favorite", "add_tag_to_cape", "remove_tag_from_cape"}
    /\ RwCanAcquire(rw[op[t].m], t)
    /\ LET m == op[t].m
           index == Position(doc[m].capes, op[t].id)
           after == KeyedChange(doc[m], index, op[t])
       IN
        /\ rw' = WriteAndDrop(m, t)
        /\ IF index = 0
           THEN /\ pc' = [pc EXCEPT ![t] = "done"]
                /\ ret' = [ret EXCEPT ![t] = [status |-> "err", val |-> None]]
                /\ NoCommit
                /\ UNCHANGED doc
           ELSE /\ doc' = [doc EXCEPT ![m] = after]
                /\ ret' = [ret EXCEPT ![t].val = Some(after.capes[index])]
                /\ pc' = [pc EXCEPT ![t] = "s_call"]
                /\ Commit(t, m)
    /\ UNCHANGED <<presence_changed, notified, file, fver, dir_exists,
                   save_lock, discord, op, idx, data, scope, wseq, snap, found>>

\* toggle_favorite (248-257), add_tag_to_cape (306-318), remove_tag_from_cape
\* (335-343): look the record up, change it, clone it, drop the guard; without
\* a record return Ok(None)
KeyedMutation(t) ==
    /\ pc[t] = "w_wait"
    /\ op[t].kind \in {"toggle_favorite", "add_tag_to_cape", "remove_tag_from_cape"}
    /\ RwCanAcquire(rw[op[t].m], t)
    /\ LET m == op[t].m
           index == Position(doc[m].capes, op[t].id)
           after == KeyedChange(doc[m], index, op[t])
       IN
        /\ rw' = WriteAndDrop(m, t)
        /\ IF index = 0
           THEN /\ pc' = [pc EXCEPT ![t] = "done"]
                /\ ret' = [ret EXCEPT ![t] = [status |-> "ok", val |-> None]]
                /\ NoCommit
                /\ UNCHANGED doc
           ELSE /\ doc' = [doc EXCEPT ![m] = after]
                /\ ret' = [ret EXCEPT ![t].val = Some(after.capes[index])]
                /\ pc' = [pc EXCEPT ![t] = "s_call"]
                /\ Commit(t, m)
    /\ UNCHANGED <<presence_changed, notified, file, fver, dir_exists,
                   save_lock, discord, op, idx, data, scope, wseq, snap, found>>

\* set_config, lines 189-298: compare, replace keeping the version, leave the
\* block; should_save = false returns Ok(()) without a save
SetConfig(t) ==
    /\ pc[t] = "w_wait"
    /\ op[t].kind = "set_config"
    /\ RwCanAcquire(rw[op[t].m], t)
    /\ LET m == op[t].m IN
        /\ rw' = WriteAndDrop(m, t)
        /\ IF SameSettings(doc[m], op[t].new_config)
           THEN /\ pc' = [pc EXCEPT ![t] = "done"]
                /\ ret' = [ret EXCEPT ![t] = [status |-> "ok", val |-> None]]
                /\ NoCommit
                /\ UNCHANGED <<doc, presence_changed>>
           ELSE /\ doc' = [doc EXCEPT ![m] = ReplaceConfig(@, op[t].new_config)]
                /\ presence_changed' = [presence_changed EXCEPT ![t] =
                       doc[m].enable_discord_presence # op[t].new_config.enable_discord_presence]
                /\ pc' = [pc EXCEPT ![t] = "s_call"]
                /\ Commit(t, m)
                /\ UNCHANGED ret
    /\ UNCHANGED <<notified, file, fver, dir_exists, save_lock, discord, op,
                   idx, data, scope, wseq, snap, found>>

(* -------------------------------------------------------------- persist *)
\* save_capes / save_config is called: self.save_lock.lock().await is reached
SaveRequest(t) ==
    /\ pc[t] = "s_call"
    /\ save_lock' = [save_lock EXCEPT ![op[t].m] = MutexRequest(@, t)]
    /\ pc' = [pc EXCEPT ![t] = "s_wait"]
    /\ UNCHANGED <<presence_changed, notified, doc, file, fver, dir_exists, rw,
                   discord, op, idx, data, ret, scope, wseq, snap, found,
                   serial, ver, cseq, raced>>

\* The save lock is acquired and parent_dir.exists() tested: a missing
\* directory starts create_dir_all, an existing one leads to read().await.
SaveGranted(t) ==
    /\ pc[t] = "s_wait"
    /\ MutexCanAcquire(save_lock[op[t].m], t)
    /\ save_lock' = [save_lock EXCEPT ![op[t].m] = MutexAcquire(@, t)]
    /\ IF dir_exists
       THEN /\ rw' = [rw EXCEPT ![op[t].m] = RwRequest(@, t, "read")]
            /\ pc' = [pc EXCEPT ![t] = "s_rwait"]
       ELSE /\ pc' = [pc EXCEPT ![t] = "s_mkdir"]
            /\ UNCHANGED rw
    /\ UNCHANGED <<presence_changed, notified, doc, file, fver, dir_exists,
                   discord, op, idx, data, ret, scope, wseq, snap, found,
                   serial, ver, cseq, raced>>

\* fs::create_dir_all returns: Ok goes on to read().await, Err leaves the save
\* through `?`, dropping the save guard.
MkdirDone(t) ==
    /\ pc[t] = "s_mkdir"
    /\ \E io_ok \in BOOLEAN :
        IF io_ok
        THEN /\ dir_exists' = TRUE
             /\ rw' = [rw EXCEPT ![op[t].m] = RwRequest(@, t, "read")]
             /\ pc' = [pc EXCEPT ![t] = "s_rwait"]
             /\ UNCHANGED <<save_lock, ret>>
        ELSE /\ save_lock' = [save_lock EXCEPT ![op[t].m] = MutexRelease(@, t)]
             /\ AfterSave(t, FALSE)
             /\ UNCHANGED <<dir_exists, rw>>
    /\ UNCHANGED <<presence_changed, notified, doc, file, fver, discord, op,
                   idx, data, scope, wseq, snap, found, serial, ver, cseq,
                   raced>>

\* A save of add_saved_cape that writes the added record alone.
SaveSerializeDelta(t) ==
    /\ pc[t] = "s_rwait"
    /\ RwCanAcquire(rw[op[t].m], t)
    /\ rw' = [rw EXCEPT ![op[t].m] = RwAcquire(@, t)]
    /\ data' = [data EXCEPT ![t] =
                   IF op[t].kind = "add_saved_cape"
                   THEN Serialize(op[t].m, [capes |-> <<op[t].cape>>])
                   ELSE Serialize(op[t].m, doc[op[t].m])]
    /\ snap' = [snap EXCEPT ![t] = ver[op[t].m]]
    /\ pc' = [pc EXCEPT ![t] = "s_writing"]
    /\ UNCHANGED <<presence_changed, notified, doc, file, fver, dir_exists,
                   save_lock, discord, op, idx, ret, scope, wseq, found, serial,
                   ver, cseq, raced>>

\* A save of a mutation that writes the file's document with the mutation
\* applied to it, not the document in memory.
SaveSerializeFromFile(t) ==
    /\ pc[t] = "s_rwait"
    /\ RwCanAcquire(rw[op[t].m], t)
    /\ rw' = [rw EXCEPT ![op[t].m] = RwAcquire(@, t)]
    /\ data' = [data EXCEPT ![t] =
                   IF IsMutation(op[t])
                   THEN Serialize(op[t].m, ApplyOp(Parse(op[t].m, file[op[t].m]).value, op[t]))
                   ELSE Serialize(op[t].m, doc[op[t].m])]
    /\ snap' = [snap EXCEPT ![t] = ver[op[t].m]]
    /\ pc' = [pc EXCEPT ![t] = "s_writing"]
    /\ UNCHANGED <<presence_changed, notified, doc, file, fver, dir_exists,
                   save_lock, discord, op, idx, ret, scope, wseq, found, serial,
                   ver, cseq, raced>>

\* read().await completes and the document is serialized; fs::write starts
\* with the read guard and the save guard still alive.
SaveSerialize(t) ==
    /\ pc[t] = "s_rwait"
    /\ RwCanAcquire(rw[op[t].m], t)
    /\ rw' = [rw EXCEPT ![op[t].m] = RwAcquire(@, t)]
    /\ data' = [data EXCEPT ![t] = Serialize(op[t].m, doc[op[t].m])]
    /\ snap' = [snap EXCEPT ![t] = ver[op[t].m]]
    /\ pc' = [pc EXCEPT ![t] = "s_writing"]
    /\ UNCHANGED <<presence_changed, notified, doc, file, fver, dir_exists,
                   save_lock, discord, op, idx, ret, scope, wseq, found, serial,
                   ver, cseq, raced>>

\* A save that, when the write fails, puts the document back to what the
\* file holds.
WriteDoneRollback(t) ==
    /\ pc[t] = "s_writing"
    /\ \E io_ok \in BOOLEAN :
        /\ file' = IF io_ok THEN [file EXCEPT ![op[t].m] = data[t]] ELSE file
        /\ wseq' = IF io_ok THEN [wseq EXCEPT ![t] = NextWrite(op[t].m)] ELSE wseq
        /\ fver' = IF io_ok THEN [fver EXCEPT ![op[t].m] = snap[t]] ELSE fver
        /\ doc' = IF io_ok THEN doc
                  ELSE [doc EXCEPT ![op[t].m] = Parse(op[t].m, file[op[t].m]).value]
        /\ AfterSave(t, io_ok)
    /\ rw' = [rw EXCEPT ![op[t].m] = RwRelease(@, t)]
    /\ save_lock' = [save_lock EXCEPT ![op[t].m] = MutexRelease(@, t)]
    /\ data' = [data EXCEPT ![t] = NoFile]
    /\ snap' = [snap EXCEPT ![t] = 0]
    /\ UNCHANGED <<presence_changed, notified, dir_exists, discord, op, idx,
                   scope, found, serial, ver, cseq, raced>>

\* A save whose failed write leaves the save lock of every manager held.
WriteDonePoisons(t) ==
    /\ pc[t] = "s_writing"
    /\ \E io_ok \in BOOLEAN :
        /\ file' = IF io_ok THEN [file EXCEPT ![op[t].m] = data[t]] ELSE file
        /\ wseq' = IF io_ok THEN [wseq EXCEPT ![t] = NextWrite(op[t].m)] ELSE wseq
        /\ fver' = IF io_ok THEN [fver EXCEPT ![op[t].m] = snap[t]] ELSE fver
        /\ save_lock' = IF io_ok
                        THEN [save_lock EXCEPT ![op[t].m] = MutexRelease(@, t)]
                        ELSE [m \in Managers |-> [save_lock[m] EXCEPT !.holder = t]]
        /\ AfterSave(t, io_ok)
    /\ rw' = [rw EXCEPT ![op[t].m] = RwRelease(@, t)]
    /\ data' = [data EXCEPT ![t] = NoFile]
    /\ snap' = [snap EXCEPT ![t] = 0]
    /\ UNCHANGED <<presence_changed, notified, doc, dir_exists, discord, op,
                   idx, scope, found, serial, ver, cseq, raced>>

\* fs::write returns (a failed write leaves the file as it was); the save
\* function returns: both guards and the serialized text are dropped.
WriteDone(t) ==
    /\ pc[t] = "s_writing"
    /\ \E io_ok \in BOOLEAN :
        /\ file' = IF io_ok THEN [file EXCEPT ![op[t].m] = data[t]] ELSE file
        /\ wseq' = IF io_ok THEN [wseq EXCEPT ![t] = NextWrite(op[t].m)] ELSE wseq
        /\ fver' = IF io_ok THEN [fver EXCEPT ![op[t].m] = snap[t]] ELSE fver
        /\ AfterSave(t, io_ok)
    /\ rw' = [rw EXCEPT ![op[t].m] = RwRelease(@, t)]
    /\ save_lock' = [save_lock EXCEPT ![op[t].m] = MutexRelease(@, t)]
    /\ data' = [data EXCEPT ![t] = NoFile]
    /\ snap' = [snap EXCEPT ![t] = 0]
    /\ UNCHANGED <<presence_changed, notified, doc, dir_exists, discord, op,
                   idx, scope, found, serial, ver, cseq, raced>>

\* A callout whose error is returned by set_config.
NotifyPropagates(t) ==
    /\ pc[t] = "notify"
    /\ \E outcome \in {"ok", "no_state", "error"} :
        /\ discord' = IF outcome = "ok"
                      THEN Some(op[t].new_config.enable_discord_presence)
                      ELSE discord
        /\ notified' = [notified EXCEPT ![t] = outcome # "no_state"]
        /\ ret' = [ret EXCEPT ![t].status = IF outcome = "error" THEN "err" ELSE @]
    /\ pc' = [pc EXCEPT ![t] = "done"]
    /\ UNCHANGED <<presence_changed, doc, file, fver, dir_exists, rw, save_lock,
                   op, idx, data, scope, wseq, snap, found, serial, ver, cseq,
                   raced>>

\* set_config, lines 305-314: State::get() may fail (the callout is skipped),
\* set_enabled may fail (a warning); set_config returns Ok(()) in every case.
Notify(t) ==
    /\ pc[t] = "notify"
    /\ \E outcome \in {"ok", "no_state", "error"} :
        /\ discord' = IF outcome = "ok"
                      THEN Some(op[t].new_config.enable_discord_presence)
                      ELSE discord
        /\ notified' = [notified EXCEPT ![t] = outcome # "no_state"]
    /\ pc' = [pc EXCEPT ![t] = "done"]
    /\ UNCHANGED <<presence_changed, doc, file, fver, dir_exists, rw, save_lock,
                   op, idx, data, ret, scope, wseq, snap, found, serial, ver,
                   cseq, raced>>

(* ---------------------------------------------------------------- reads *)
\* read().await completes, the result is cloned out of the document and the
\* read guard dropped, all without a suspension point.
ReadGranted(t) ==
    /\ pc[t] = "r_wait"
    /\ RwCanAcquire(rw[op[t].m], t)
    /\ rw' = [rw EXCEPT ![op[t].m] = RwRelease(RwAcquire(@, t), t)]
    /\ ret' = [ret EXCEPT ![t] = [status |-> "ok", val |-> Query(op[t], doc[op[t].m])]]
    /\ pc' = [pc EXCEPT ![t] = "done"]
    /\ UNCHANGED <<presence_changed, notified, doc, file, fver, dir_exists,
                   save_lock, discord, op, idx, data, scope, wseq, snap, found,
                   serial, ver, cseq, raced>>

(* -------------------------------------------------------- specification *)
\* A step of a running operation.
Step(t) ==
    \/ ReadFileDone(t)
    \/ LoadReplace(t)
    \/ AddSavedCape(t)
    \/ RemoveSavedCape(t)
    \/ UpdateName(t)
    \/ UpdateFavorite(t)
    \/ UpdateTags(t)
    \/ KeyedMutation(t)
    \/ SetConfig(t)
    \/ SaveRequest(t)
    \/ SaveGranted(t)
    \/ MkdirDone(t)
    \/ SaveSerialize(t)
    \/ WriteDone(t)
    \/ Notify(t)
    \/ ReadGranted(t)

Next ==
    \E t \in Tasks :
        \/ CallMutation(t)
        \/ CallRead(t)
        \/ CallLoad(t)
        \/ Step(t)

Spec == Init /\ [][Next]_vars

\* Tasks are scheduled fairly and every file operation returns.
FairSpec == Spec /\ \A t \in Tasks : WF_vars(Step(t))

(* ------------------------------------------- one operation at a time *)
\* A second specification for what each operation does to the document: the
\* load step runs first, then the commands run one after another, each to its
\* return, with a wider choice of cape arguments and of cape files.
CapeD == [id |-> 2, name |-> "d", favorite |-> FALSE, tags |-> <<"x", "x">>, added_at |-> 2]

\* Backing files serde_json accepts as a CapeDatabase; the last holds two
\* records with one id.
SeqFiles ==
    {NoFile,
     Serialize("cape", [capes |-> <<CapeA>>]),
     Serialize("cape", [capes |-> <<CapeA, CapeB>>]),
     Serialize("cape", [capes |-> <<CapeA, CapeA2>>])}

SeqCapeMutations ==
    {[kind |-> "add_saved_cape", m |-> "cape", cape |-> c] : c \in {CapeA2, CapeB, CapeD}}
    \cup {[kind |-> "remove_saved_cape", m |-> "cape", id |-> i] : i \in {1, 2}}
    \cup {[kind |-> "update_saved_cape_properties", m |-> "cape", id |-> 1,
           name |-> Some("b"), favorite |-> Some(TRUE), tags |-> Some(<<"x">>)],
          [kind |-> "update_saved_cape_properties", m |-> "cape", id |-> 1,
           name |-> None, favorite |-> None, tags |-> Some(<<"x", "x">>)],
          [kind |-> "update_saved_cape_properties", m |-> "cape", id |-> 2,
           name |-> Some("n"), favorite |-> None, tags |-> None],
          [kind |-> "update_saved_cape_properties", m |-> "cape", id |-> 2,
           name |-> None, favorite |-> Some(FALSE), tags |-> None]}
    \cup {[kind |-> "toggle_favorite", m |-> "cape", id |-> i] : i \in {1, 2}}
    \cup {[kind |-> "add_tag_to_cape", m |-> "cape", id |-> i, tag |-> "x"] : i \in {1, 2}}
    \cup {[kind |-> "remove_tag_from_cape", m |-> "cape", id |-> 1, tag |-> x] :
             x \in {"x", "y"}}

SeqMutations(m) == IF m = "cape" THEN SeqCapeMutations ELSE Mutations(m)

SeqCapeReads ==
    {[kind |-> "get_all_saved_capes", m |-> "cape"],
     [kind |-> "get_favorite_capes", m |-> "cape"],
     [kind |-> "get_capes_by_tag", m |-> "cape", tag |-> "x"]}
    \cup {[kind |-> "get_saved_cape_by_id", m |-> "cape", id |-> i] : i \in {1, 2}}

SeqReads(m) == IF m = "cape" THEN SeqCapeReads ELSE Reads(m)

\* The load step has returned and no command is running.
Quiet == pc[Loader] = "done" /\ \A u \in Commands : pc[u] \in {"idle", "done"}

SeqCallMutation(t) ==
    /\ CanInvoke(t)
    /\ Quiet
    /\ \E m \in scope : \E o \in SeqMutations(m) :
        /\ op' = [op EXCEPT ![t] = o]
        /\ rw' = [rw EXCEPT ![m] = RwRequest(@, t, "write")]
    /\ pc' = [pc EXCEPT ![t] = "w_wait"]
    /\ UNCHANGED <<presence_changed, notified, doc, file, fver, dir_exists,
                   save_lock, discord, idx, data, ret, scope, wseq, snap, found,
                   serial, ver, cseq, raced>>

SeqCallRead(t) ==
    /\ CanInvoke(t)
    /\ Quiet
    /\ \E m \in scope : \E o \in SeqReads(m) :
        /\ op' = [op EXCEPT ![t] = o]
        /\ rw' = [rw EXCEPT ![m] = RwRequest(@, t, "read")]
    /\ pc' = [pc EXCEPT ![t] = "r_wait"]
    /\ UNCHANGED <<presence_changed, notified, doc, file, fver, dir_exists,
                   save_lock, discord, idx, data, ret, scope, wseq, snap, found,
                   serial, ver, cseq, raced>>

SeqInit ==
    /\ scope \in {{m} : m \in Managers}
    /\ \E fc \in (IF "cape" \in scope THEN SeqFiles ELSE {NoFile}) :
       \E fg \in (IF "config" \in scope THEN InitFiles("config") ELSE {NoFile}) :
          file = [m \in Managers |-> IF m = "cape" THEN fc ELSE fg]
    /\ dir_exists \in BOOLEAN
    /\ (\E m \in Managers : file[m] # NoFile) => dir_exists
    /\ InitManagers

SeqNext ==
    \E t \in Tasks :
        \/ CallLoad(t)
        \/ ReadFileDone(t)
        \/ LoadReplace(t)
        \/ SeqCallMutation(t)
        \/ SeqCallRead(t)
        \/ AddSavedCape(t)
        \/ RemoveSavedCape(t)
        \/ UpdateName(t)
        \/ UpdateFavorite(t)
        \/ UpdateTags(t)
        \/ KeyedMutation(t)
        \/ SetConfig(t)
        \/ SaveRequest(t)
        \/ SaveGranted(t)
        \/ MkdirDone(t)
        \/ SaveSerialize(t)
        \/ WriteDone(t)
        \/ Notify(t)
        \/ ReadGranted(t)

SeqSpec == SeqInit /\ [][SeqNext]_vars

(* ------------------------------------------------------------ properties *)
\* Every invoked operation has returned.
Settled == \A t \in Tasks : pc[t] \in {"idle", "done"}

\* Task t runs a mutating command on manager m.
Mutates(t, m) == op[t].m = m /\ IsMutation(op[t])

\* Task t is inside save_capes / save_config, past the save lock.
InPersist(t) == pc[t] \in {"s_mkdir", "s_rwait", "s_writing"}

\* Task t is suspended in a file operation.
InFileIO(t) == pc[t] \in {"l_reading", "s_mkdir", "s_writing"}

\* Task t has called its save and the save has not returned.
Persisting(t) == pc[t] \in {"s_call", "s_wait", "s_mkdir", "s_rwait", "s_writing"}

\* Task t holds the document lock of manager m in either mode.
HoldsDocLock(t, m) == rw[m].writer = t \/ t \in rw[m].readers

\* Task t committed a mutation and its persist has written the file.
Persisted(t) == cseq[t] > 0 /\ wseq[t] > 0

\* C1: once all the concurrently launched mutations of a manager have
\* returned, its in-memory document equals the result of applying the
\* committed mutations one after another, in the order of their commits.
C1_MutationsSerialize ==
    Settled => \A m \in Managers : doc[m] = serial[m]

\* Two mutations of one manager overlapped (the second committed while the
\* first, not yet persisted, was in flight), both changed the document and
\* both have returned.
C1_Witness ==
    /\ Settled
    /\ \E a, b \in Commands : \E m \in Managers :
        /\ Mutates(a, m) /\ Mutates(b, m)
        /\ 0 < cseq[a] /\ cseq[a] < cseq[b]
        /\ 0 < wseq[b] /\ wseq[b] < wseq[a]
        /\ doc[m] = serial[m]
        /\ doc[m] # Default(m)

\* C2: for one manager at most one task at a time is past the save lock, in
\* the directory-create, serialize or file-write step of a persist.
C2_OnePersistAtATime ==
    \A a, b \in Tasks :
        (a # b /\ op[a].m = op[b].m /\ InPersist(a)) => ~InPersist(b)

\* The persist of the load step writes the file while the persist of a
\* mutation waits for the save lock.
C2_Witness ==
    \E b \in Commands :
        /\ op[b].m = op[Loader].m
        /\ pc[Loader] = "s_writing"
        /\ cseq[b] > 0
        /\ pc[b] = "s_wait"

\* C3 (as stated): no task holds the document lock, in read or in write mode,
\* while it is suspended in a file operation.
C3_NoDocLockDuringFileIO ==
    \A t \in Tasks : InFileIO(t) => ~HoldsDocLock(t, op[t].m)

\* C4: no task holds the document's write lock while its save call is in
\* progress, be it waiting for the save lock or writing the file.
C4_WriteLockReleasedBeforePersist ==
    \A t \in Tasks : Persisting(t) => rw[op[t].m].writer # t

\* A mutation has committed and waits for the save lock while another task
\* holds the write lock of the same document.
C4_Witness ==
    \E t, u \in Commands :
        /\ t # u
        /\ cseq[t] > 0
        /\ pc[t] = "s_wait"
        /\ rw[op[t].m].writer = u

\* C5 (as stated): of two mutations of one document, the one that committed
\* first has its persist write the file first.
C5_PersistsInCommitOrder ==
    \A a, b \in Tasks : \A m \in Managers :
        (/\ Mutates(a, m) /\ Mutates(b, m)
         /\ cseq[a] < cseq[b]
         /\ Persisted(a) /\ Persisted(b))
        => wseq[a] < wseq[b]

\* C5 (amended): persists may run in the opposite order of the commits, but
\* each one writes the document as it stands at its write: once the persists
\* of two mutations have both written and nothing was committed since, the
\* file holds the document with both commits.
C5_PersistedFileIsCurrent ==
    \A a, b \in Tasks : \A m \in Managers :
        (/\ Mutates(a, m) /\ Mutates(b, m)
         /\ cseq[a] < cseq[b]
         /\ Persisted(a) /\ Persisted(b)
         /\ cseq[b] = ver[m]
         /\ rw[m].writer = 0)
        => Parse(m, file[m]) = [ok |-> TRUE, value |-> doc[m]]

\* Two mutations have persisted in the opposite order of their commits and
\* the file holds the document with both.
C5_Witness ==
    \E a, b \in Commands : \E m \in Managers :
        /\ Mutates(a, m) /\ Mutates(b, m)
        /\ 0 < cseq[a] /\ cseq[a] < cseq[b]
        /\ Persisted(a) /\ Persisted(b)
        /\ wseq[b] < wseq[a]
        /\ cseq[b] = ver[m]
        /\ rw[m].writer = 0
        /\ doc[m] # Default(m)
        /\ Parse(m, file[m]).value = doc[m]

\* C6: the value a read operation returns is computed from a document between
\* two whole commits: what the reader is handed when its read().await
\* completes is its query on the committed operations applied one after
\* another, never on a document a mutation or a load has changed in part.
C6_ReadsSeeWholeCommits ==
    [][\A t \in Tasks :
          (pc[t] = "r_wait" /\ pc'[t] = "done")
          => ret'[t].val = Query(op[t], serial[op[t].m])]_vars

\* A reader invoked while update_saved_cape_properties was in flight has
\* returned the record with its new name, favorite flag and tags, before the
\* update's persist returned.
C6_Witness ==
    \E r, w \in Commands :
        /\ op[w].kind = "update_saved_cape_properties"
        /\ cseq[w] > 0
        /\ Persisting(w)
        /\ op[r].kind = "get_all_saved_capes"
        /\ pc[r] = "done"
        /\ Len(ret[r].val) > 0
        /\ ret[r].val = serial["cape"].capes
        /\ ret[w].val = Some(ret[r].val[Position(ret[r].val, op[w].id)])

\* Task t waits for the document lock and the lock does not admit it.
BlockedOnDoc(t) ==
    /\ pc[t] \in {"w_wait", "r_wait", "s_rwait"}
    /\ ~RwCanAcquire(rw[op[t].m], t)

\* Task t waits for the save lock and the lock does not admit it.
BlockedOnSave(t) ==
    /\ pc[t] = "s_wait"
    /\ ~MutexCanAcquire(save_lock[op[t].m], t)

\* C7 (as stated): a read operation is never kept waiting for the document
\* lock while a persist's file write on the same manager is in progress.
C7_ReadersNeverWaitForFileWrite ==
    \A r, p \in Tasks :
        (pc[r] = "r_wait" /\ BlockedOnDoc(r) /\ op[p].m = op[r].m)
        => pc[p] # "s_writing"

\* Operations that were invoked and have not returned.
InFlight == {t \in Tasks : pc[t] \notin {"idle", "done"}}

\* C8: with fair scheduling and file operations that return, every invoked
\* load, read and mutation returns, and in every state some operation in
\* flight is not blocked on the document lock or the save lock.
C8_NoDeadlock ==
    /\ [](InFlight # {} => \E t \in InFlight : ~BlockedOnDoc(t) /\ ~BlockedOnSave(t))
    /\ \A t \in Tasks : (pc[t] # "idle") ~> (pc[t] = "done")

\* The load step and two commands contend: one task writes the file, one
\* waits for the save lock it holds, one waits for the document lock.
C8_Witness ==
    \E a, b, c \in Tasks :
        /\ pc[a] = "s_writing"
        /\ BlockedOnSave(b)
        /\ BlockedOnDoc(c)

\* The load step of manager m took the path named by `what` and returned Ok.
LoadReturnedOk(m, what) ==
    /\ op[Loader].m = m
    /\ pc[Loader] = "done"
    /\ ret[Loader].status = "ok"
    /\ found[m] = what

\* ... and the manager has not been mutated.
LoadedFresh(m, what) ==
    /\ LoadReturnedOk(m, what)
    /\ ver[m] = 0
    /\ rw[m].writer = 0

LoadReturned(m, what) ==
    /\ op[Loader].m = m
    /\ pc[Loader] = "done"
    /\ found[m] = what

\* Manager m has not been mutated: no commit, no write guard alive.
Unmutated(m) == ver[m] = 0 /\ rw[m].writer = 0

\* C11 (as stated): a load step that finds a backing file serde_json cannot
\* parse never returns a failure, and leaves the default document in memory
\* (on a manager no command has mutated).
C11_CorruptFileNeverFailsLoad ==
    \A m \in Managers :
        LoadReturned(m, "corrupt")
        => /\ ret[Loader].status = "ok"
           /\ Unmutated(m) => doc[m] = Default(m)

\* C12 (as stated): an I/O error of the load step's read of an existing file
\* is recovered: the load step does not return the error, the document is
\* the default and the default has been persisted again.
C12_ReadErrorRecovered ==
    \A m \in Managers :
        LoadReturned(m, "unreadable")
        => /\ ret[Loader].status = "ok"
           /\ Unmutated(m) => /\ doc[m] = Default(m)
                              /\ file[m] = Serialize(m, Default(m))

\* The load step's replacement is the latest commit to manager m's document.
LoadIsLatestCommit(m) ==
    /\ LoadReturnedOk(m, "document")
    /\ \A c \in Commands : cseq[c] < ver[m]
    /\ rw[m].writer = 0

\* C13: round trip.  The text a persist serializes, and the file a successful
\* persist leaves, parse to exactly the document the manager holds; and the
\* document a load installs is the one whose serialization is the text read.
C13_RoundTrip ==
    [][\A t \in Tasks :
          /\ (pc[t] = "s_rwait" /\ pc'[t] = "s_writing")
             => Parse(op[t].m, data'[t]) = [ok |-> TRUE, value |-> doc[op[t].m]]
          /\ (pc[t] = "s_writing" /\ wseq'[t] # wseq[t])
             => Parse(op[t].m, file'[op[t].m]) = [ok |-> TRUE, value |-> doc[op[t].m]]
          /\ (op[t].kind = "load" /\ pc[t] = "w_wait" /\ pc'[t] = "done")
             => /\ doc'[op[t].m] = Parse(op[t].m, data[t]).value
                /\ Serialize(op[t].m, doc'[op[t].m]) = data[t]]_vars

\* A command added a record with tags that no initial file holds and
\* persisted it; the load step then read the file and installed a document
\* that holds that record as it was added.
C13_Witness ==
    \E a \in Commands :
        /\ op[a] = [kind |-> "add_saved_cape", m |-> "cape", cape |-> CapeB]
        /\ Persisted(a)
        /\ LoadIsLatestCommit("cape")
        /\ Position(doc["cape"].capes, CapeB.id) # 0
        /\ doc["cape"].capes[Position(doc["cape"].capes, CapeB.id)] = CapeB

\* C14: a load step that parses the backing file to a document V installs V
\* as the whole in-memory document and writes no file; and the document
\* changes only in a step of a mutation's critical section or of a load.
C14_LoadReplacesDocument ==
    [][\A m \in Managers :
          /\ (op[Loader].m = m /\ pc[Loader] = "w_wait" /\ pc'[Loader] = "done")
             => /\ doc'[m] = Parse(m, data[Loader]).value
                /\ file' = file
                /\ wseq'[Loader] = 0
          /\ doc'[m] # doc[m]
             => \E t \in Tasks :
                   /\ op[t].m = m
                   /\ pc[t] \in {"w_wait", "w_favorite", "w_tags"}
                   /\ pc'[t] # pc[t]]_vars

\* A command had added a record to the catalog in memory; the load step then
\* parsed the initial file and the catalog holds the file's record alone.
C14_Witness ==
    \E a \in Commands :
        /\ op[a] = [kind |-> "add_saved_cape", m |-> "cape", cape |-> CapeB]
        /\ cseq[a] > 0
        /\ LoadIsLatestCommit("cape")
        /\ wseq[Loader] = 0
        /\ doc["cape"] = [capes |-> <<CapeA>>]

\* Task t's persist fails in this step: create_dir_all or fs::write returned
\* an error.
PersistFails(t) ==
    \/ pc[t] = "s_mkdir" /\ pc'[t] \notin {"s_mkdir", "s_rwait"}
    \/ pc[t] = "s_writing" /\ pc'[t] # "s_writing" /\ wseq'[t] = wseq[t]

\* C15: when the persist of a mutating operation fails, the operation returns
\* the error (no later step of it runs), and the step changes neither the
\* document nor the file: the document keeps the committed value, which is
\* the operation's own if no other commit followed.
C15_FailedPersistKeepsCommit ==
    [][\A t \in Commands :
          (cseq[t] > 0 /\ PersistFails(t))
          => /\ pc'[t] = "done"
             /\ ret'[t].status = "err"
             /\ doc' = doc
             /\ file' = file
             /\ (cseq[t] = ver[op[t].m] /\ rw[op[t].m].writer = 0)
                => doc'[op[t].m] = serial[op[t].m]]_vars

\* An add_saved_cape returned an error from its persist: the catalog in
\* memory holds the added record, the file does not.
C15_Witness ==
    \E t \in Commands :
        /\ op[t] = [kind |-> "add_saved_cape", m |-> "cape", cape |-> CapeB]
        /\ pc[t] = "done"
        /\ ret[t].status = "err"
        /\ cseq[t] > 0
        /\ Position(doc["cape"].capes, CapeB.id) # 0
        /\ file["cape"] = Serialize("cape", [capes |-> <<CapeA>>])

\* Task t's fs::write succeeds in this step.
WriteSucceeds(t) == pc[t] = "s_writing" /\ wseq'[t] # wseq[t]

\* C16: every successful file write leaves the file equal to the
\* serialization of the whole document as it stands at that step, which is a
\* document of whole commits; and a file changes in no other step.
C16_FileIsWholeSnapshot ==
    [][\A m \in Managers :
          /\ \A t \in Tasks :
                (op[t].m = m /\ WriteSucceeds(t))
                => /\ file'[m] = Serialize(m, doc[m])
                   /\ doc[m] = serial[m]
          /\ file'[m] # file[m]
             => \E t \in Tasks : op[t].m = m /\ WriteSucceeds(t)]_vars

\* An add that put a second record into the catalog and the three-step update
\* of the first record have both persisted: the file is the serialization of
\* the catalog with both records, the first with all three properties changed.
C16_Witness ==
    \E a, b \in Commands :
        /\ op[a] = [kind |-> "add_saved_cape", m |-> "cape", cape |-> CapeB]
        /\ op[b].kind = "update_saved_cape_properties"
        /\ Persisted(a)
        /\ Persisted(b)
        /\ Len(doc["cape"].capes) = 2
        /\ doc["cape"].capes[1].name = "b"
        /\ doc["cape"].capes[1].tags = <<"x">>
        /\ file["cape"] = Serialize("cape", doc["cape"])

\* Task t is a set_config call and takes a step.
SetConfigSteps(t) == op[t].kind = "set_config" /\ pc'[t] # pc[t]

\* C17: no step of set_config changes the version of the configuration in
\* memory, whatever version the caller supplies; the version changes only
\* when the load step replaces the document.
C17_SetConfigKeepsVersion ==
    [][/\ \A t \in Commands :
             SetConfigSteps(t) => doc'["config"].version = doc["config"].version
       /\ doc'["config"].version # doc["config"].version
          => op[Loader].m = "config" /\ pc[Loader] = "w_wait" /\ pc'[Loader] = "done"]_vars

\* The file's configuration (version 2) was loaded; a set_config whose record
\* carries version 1 then changed the settings: the version is still 2.
C17_Witness ==
    \E t \in Commands :
        /\ op[t] = [kind |-> "set_config", m |-> "config", new_config |-> ConfigY]
        /\ cseq[t] = ver["config"]
        /\ cseq[t] > 1
        /\ rw["config"].writer = 0
        /\ doc["config"].hooks.wrapper = Some("w")
        /\ doc["config"].version = 2
        /\ ConfigY.version = 1

\* Two configurations differ in the version at most.
EqualButVersion(current, new_config) ==
    [current EXCEPT !.version = new_config.version] = new_config

\* C18: a set_config whose record equals the current configuration in every
\* field but the version returns Ok at once: the configuration in memory,
\* version included, is unchanged, no file is written and the notifier is
\* not called.
C18_NoOpSetConfig ==
    [][\A t \in Commands :
          (op[t].kind = "set_config" /\ pc[t] = "w_wait" /\ pc'[t] # "w_wait"
             /\ EqualButVersion(doc["config"], op[t].new_config))
          => /\ doc' = doc
             /\ file' = file
             /\ discord' = discord
             /\ pc'[t] = "done"
             /\ ret'[t].status = "ok"
             /\ wseq'[t] = 0
             /\ cseq'[t] = 0]_vars

\* A set_config whose record differs from the loaded configuration in the
\* version alone (7 against 2) has returned without a commit or a write.
C18_Witness ==
    \E t \in Commands :
        /\ op[t] = [kind |-> "set_config", m |-> "config", new_config |-> ConfigX]
        /\ pc[t] = "done"
        /\ ret[t].status = "ok"
        /\ cseq[t] = 0
        /\ wseq[t] = 0
        /\ doc["config"] = [ConfigX EXCEPT !.version = 2]

\* C19 (as stated): a set_config call invokes the presence notifier only if
\* its update changed enable_discord_presence.
C19_NotifierOnlyOnFlagChange ==
    \A t \in Commands : notified[t] => presence_changed[t]

\* C20: when the step after a successful persist of set_config ends, whether
\* the notifier succeeded, failed or could not be reached, set_config returns
\* Ok and the step changes neither document nor file; if no commit followed
\* the call's own, the configuration in memory is the caller's record with
\* the version kept, and the file is its serialization.
C20_NotifierFailureIgnored ==
    [][\A t \in Commands :
          (pc[t] = "notify" /\ pc'[t] # "notify")
          => /\ pc'[t] = "done"
             /\ ret'[t].status = "ok"
             /\ wseq[t] > 0
             /\ doc' = doc
             /\ file' = file
             /\ cseq[t] = ver["config"]
                => /\ doc'["config"] = [op[t].new_config EXCEPT
                                           !.version = doc["config"].version]
                   /\ file'["config"] = Serialize("config", doc'["config"])]_vars

\* Two set_config calls have returned Ok after their persists: for one the
\* notifier was called and failed (no value has ever been set), for the other
\* the global state was not available and the notifier was not called.
C20_Witness ==
    \E a, b \in Commands :
        /\ op[a].kind = "set_config" /\ op[b].kind = "set_config"
        /\ pc[a] = "done" /\ pc[b] = "done"
        /\ wseq[a] > 0 /\ wseq[b] > 0
        /\ notified[a] /\ ~notified[b]
        /\ discord = None
        /\ ret[a].status = "ok" /\ ret[b].status = "ok"
        /\ cseq[b] = ver["config"]
        /\ doc["config"] = [op[b].new_config EXCEPT !.version = doc["config"].version]
        /\ file["config"] = Serialize("config", doc["config"])

(* --------------------------------------------- what each operation does *)
\* Task t runs the critical section of an operation of the given kind in
\* this step and goes on to its save.
Changes(t, kind) == op[t].kind = kind /\ pc[t] = "w_wait" /\ pc'[t] = "s_call"

\* C21: add_saved_cape is an upsert by id.  If a record of the catalog has the
\* id of the supplied record, the first such record is replaced by the
\* supplied one and nothing else changes; otherwise the supplied record is
\* appended and nothing else changes.
C21_AddIsUpsert ==
    [][\A t \in Commands :
          Changes(t, "add_saved_cape")
          => LET old == doc["cape"].capes
                 new == doc'["cape"].capes
                 c == op[t].cape
             IN  IF \E i \in 1..Len(old) : old[i].id = c.id
                 THEN \E i \in 1..Len(old) :
                         /\ old[i].id = c.id
                         /\ \A j \in 1..(i - 1) : old[j].id # c.id
                         /\ new = [old EXCEPT ![i] = c]
                 ELSE new = Append(old, c)]_vars

\* The file held the record with id 1; an add with id 2 appended, then an add
\* with id 1 replaced the first record and left the second in its place.
C21_Witness ==
    /\ found["cape"] = "document"
    /\ op[1] = [kind |-> "add_saved_cape", m |-> "cape", cape |-> CapeB]
    /\ op[2] = [kind |-> "add_saved_cape", m |-> "cape", cape |-> CapeA2]
    /\ pc[1] = "done" /\ pc[2] = "done"
    /\ ret[1].status = "ok" /\ ret[2].status = "ok"
    /\ doc["cape"].capes = <<CapeA2, CapeB>>

\* No two records of the sequence have the same id.
UniqueIds(capes) ==
    \A i, j \in 1..Len(capes) : capes[i].id = capes[j].id => i = j

\* C22 (as stated): in every reachable state, the states after a load of a
\* parseable file included, the catalog holds at most one record per id.
C22_AtMostOneRecordPerId == UniqueIds(doc["cape"].capes)

\* Task t, running an operation of the given kind, leaves its write().await
\* in this step.
Runs(t, kind) == op[t].kind = kind /\ pc[t] = "w_wait" /\ pc'[t] # "w_wait"

\* i is the index of the first record with the id.
FirstWithId(capes, i, id) ==
    /\ i \in 1..Len(capes)
    /\ capes[i].id = id
    /\ \A j \in 1..(i - 1) : capes[j].id # id

\* How often the tag occurs in the sequence.
Count(tags, tag) == Cardinality({i \in 1..Len(tags) : tags[i] = tag})

\* Command a ran the same operation as t, has returned, and nothing was
\* committed since.
JustRan(a, t) ==
    /\ a # t
    /\ op[a] = op[t]
    /\ pc[a] = "done"
    /\ cseq[a] = ver["cape"]

\* C23 (as stated): tag operations are idempotent.  add_tag_to_cape on an
\* existing record leaves the tag present exactly once, changing nothing if
\* the record carries it, and a second application right after the first
\* leaves the catalog as it is and returns the same record;
\* remove_tag_from_cape of a tag the record does not carry leaves the catalog
\* as it is and goes on with the record as its result.
C23_TagOpsIdempotent ==
    [][\A t \in Commands : \A i \in 1..Len(doc["cape"].capes) :
          LET old == doc["cape"].capes[i]
              new == doc'["cape"].capes[i]
          IN
          /\ (Runs(t, "add_tag_to_cape") /\ FirstWithId(doc["cape"].capes, i, op[t].id))
             => /\ pc'[t] = "s_call"
                /\ ret'[t].val = Some(new)
                /\ Count(new.tags, op[t].tag) = 1
                /\ Count(old.tags, op[t].tag) > 0 => doc' = doc
                /\ \A a \in Commands :
                      JustRan(a, t) => doc' = doc /\ ret'[t].val = ret[a].val
          /\ (Runs(t, "remove_tag_from_cape") /\ FirstWithId(doc["cape"].capes, i, op[t].id)
                /\ Count(old.tags, op[t].tag) = 0)
             => /\ pc'[t] = "s_call"
                /\ ret'[t].val = Some(old)
                /\ doc' = doc]_vars

\* No tag occurs twice in the sequence.
NoTagTwice(tags) == \A i, j \in 1..Len(tags) : tags[i] = tags[j] => i = j

\* C24 (as stated): in every state reachable by add_saved_cape,
\* update_saved_cape_properties, add_tag_to_cape and remove_tag_from_cape
\* calls, no record's tags hold the same tag twice.
C24_TagsAreASet ==
    \A i \in 1..Len(doc["cape"].capes) : NoTagTwice(doc["cape"].capes[i].tags)

\* C25 (as stated): while a record with a given id stays in the catalog, no
\* step of an operation changes its added_at.
C25_AddedAtIsFixed ==
    [][\A i \in 1..Len(doc["cape"].capes) : \A j \in 1..Len(doc'["cape"].capes) :
          (/\ FirstWithId(doc["cape"].capes, i, doc["cape"].capes[i].id)
           /\ FirstWithId(doc'["cape"].capes, j, doc["cape"].capes[i].id))
          => doc'["cape"].capes[j].added_at = doc["cape"].capes[i].added_at]_vars

\* The catalog holds a record with the id.
HasId(capes, id) == \E i \in 1..Len(capes) : capes[i].id = id

\* C26: toggle_favorite on an existing id flips the favorite flag of the
\* (first) record with that id, changes nothing else and returns the flipped
\* record; applied right after another toggle_favorite of the same id it
\* gives back the flag that call had flipped.  On an id not in the catalog it
\* returns Ok(None) at once and changes neither catalog nor file.
C26_ToggleTwiceRestores ==
    [][\A t \in Commands :
          Runs(t, "toggle_favorite")
          => /\ \A i \in 1..Len(doc["cape"].capes) :
                   FirstWithId(doc["cape"].capes, i, op[t].id)
                   => /\ doc'["cape"].capes =
                            [doc["cape"].capes EXCEPT ![i].favorite = ~@]
                      /\ pc'[t] = "s_call"
                      /\ ret'[t].val = Some(doc'["cape"].capes[i])
                      /\ \A a \in Commands :
                            JustRan(a, t)
                            => /\ ret[a].val = Some(doc["cape"].capes[i])
                               /\ doc'["cape"].capes[i].favorite = ~ret[a].val[1].favorite
             /\ ~HasId(doc["cape"].capes, op[t].id)
                => /\ doc' = doc
                   /\ file' = file
                   /\ pc'[t] = "done"
                   /\ ret'[t] = [status |-> "ok", val |-> None]]_vars

\* toggle_favorite(1) was applied twice to the record loaded from the file,
\* which was no favorite: the first call returned it as a favorite, the second
\* as it was, and the catalog holds it as it was.
C26_Witness ==
    /\ found["cape"] = "document"
    /\ op[1] = [kind |-> "toggle_favorite", m |-> "cape", id |-> 1]
    /\ op[2] = op[1]
    /\ pc[1] = "done" /\ pc[2] = "done"
    /\ ret[1] = [status |-> "ok", val |-> Some([CapeA EXCEPT !.favorite = TRUE])]
    /\ ret[2] = [status |-> "ok", val |-> Some(CapeA)]
    /\ doc["cape"].capes[1] = CapeA

\* The record update_saved_cape_properties is to leave for the record c.
Updated(c, o) ==
    [id |-> c.id,
     name |-> IF o.name = None THEN c.name ELSE o.name[1],
     favorite |-> IF o.favorite = None THEN c.favorite ELSE o.favorite[1],
     tags |-> IF o.tags = None THEN c.tags ELSE o.tags[1],
     added_at |-> c.added_at]

\* C27: update_saved_cape_properties on an existing id leaves, at the drop of
\* its write guard, the catalog it found with the (first) record of that id
\* changed in exactly the supplied fields, and returns that record; on an id
\* not in the catalog it returns Ok(None) at once and changes neither catalog
\* nor file.  (The catalog the call found is the committed one, serial.)
C27_UpdateSetsSuppliedFields ==
    [][\A t \in Commands :
          /\ Runs(t, "update_saved_cape_properties")
             => /\ serial["cape"] = doc["cape"]
                /\ ~HasId(doc["cape"].capes, op[t].id)
                   => /\ doc' = doc
                      /\ file' = file
                      /\ pc'[t] = "done"
                      /\ ret'[t] = [status |-> "ok", val |-> None]
          /\ (op[t].kind = "update_saved_cape_properties"
                /\ pc[t] = "w_tags" /\ pc'[t] = "s_call")
             => \E i \in 1..Len(serial["cape"].capes) :
                   /\ FirstWithId(serial["cape"].capes, i, op[t].id)
                   /\ doc'["cape"].capes =
                         [serial["cape"].capes EXCEPT ![i] = Updated(@, op[t])]
                   /\ ret'[t].val = Some(doc'["cape"].capes[i])]_vars

\* Two updates of the second record of the loaded catalog, one with a name
\* alone and one with a favorite flag alone: the record has the new name, the
\* new flag, its old tags, id and added_at, and the first record is as loaded.
C27_Witness ==
    /\ found["cape"] = "document"
    /\ op[1] = [kind |-> "update_saved_cape_properties", m |-> "cape", id |-> 2,
                name |-> Some("n"), favorite |-> None, tags |-> None]
    /\ op[2] = [kind |-> "update_saved_cape_properties", m |-> "cape", id |-> 2,
                name |-> None, favorite |-> Some(FALSE), tags |-> None]
    /\ pc[1] = "done" /\ pc[2] = "done"
    /\ ret[1] = [status |-> "ok", val |-> Some([CapeB EXCEPT !.name = "n"])]
    /\ ret[2] = [status |-> "ok",
                 val |-> Some([CapeB EXCEPT !.name = "n", !.favorite = FALSE])]
    /\ doc["cape"].capes = <<CapeA, [CapeB EXCEPT !.name = "n", !.favorite = FALSE]>>

\* The operations that look a record up by its id.
KeyedKinds ==
    {"get_saved_cape_by_id", "update_saved_cape_properties", "toggle_favorite",
     "add_tag_to_cape", "remove_tag_from_cape", "remove_saved_cape"}

\* Task t, running a keyed operation, gets the document lock in this step.
Looks(t) ==
    /\ op[t].kind \in KeyedKinds
    /\ pc[t] \in {"w_wait", "r_wait"}
    /\ pc'[t] # pc[t]

\* C28: a keyed operation on an id that is not in the catalog returns at the
\* step in which it looked, with Ok and the absent value (false for
\* remove_saved_cape, None for the others); the step changes neither document
\* nor file, and the operation has written no file.
C28_AbsentIdIsNoError ==
    [][\A t \in Commands :
          (Looks(t) /\ ~HasId(doc["cape"].capes, op[t].id))
          => /\ pc'[t] = "done"
             /\ ret'[t] = [status |-> "ok",
                           val |-> IF op[t].kind = "remove_saved_cape"
                                   THEN <<FALSE>> ELSE None]
             /\ doc' = doc
             /\ file' = file
             /\ wseq'[t] = 0
             /\ cseq'[t] = 0]_vars

\* remove_saved_cape and add_tag_to_cape were called with an id the loaded
\* catalog does not hold: false and None, catalog and file as loaded.
C28_Witness ==
    /\ found["cape"] = "document"
    /\ op[1] = [kind |-> "remove_saved_cape", m |-> "cape", id |-> 2]
    /\ op[2] = [kind |-> "add_tag_to_cape", m |-> "cape", id |-> 2, tag |-> "x"]
    /\ ret[1] = [status |-> "ok", val |-> <<FALSE>>]
    /\ ret[2] = [status |-> "ok", val |-> None]
    /\ pc[1] = "done" /\ pc[2] = "done"
    /\ doc["cape"].capes = <<CapeA>>
    /\ file["cape"] = Serialize("cape", [capes |-> <<CapeA>>])

(* -------------------------------------------------------- construction *)
\* No file of manager m has been written since construction.
NeverWritten(m) == \A t \in Tasks : op[t].m = m => wseq[t] = 0

\* C29: construction leaves the default document and does no file I/O.  As
\* long as nothing has been committed to a manager's document, the document
\* is the default, whatever the backing file holds and whether or not it
\* exists; as long as no save has written, the file and its directory are as
\* the process found them; and nothing has been read before the load step
\* starts.
C29_ConstructionIsPure ==
    \A m \in Managers :
        /\ (ver[m] = 0 /\ rw[m].writer = 0) => doc[m] = Default(m)
        /\ NeverWritten(m) => file[m] \in InitFiles(m) \cup {NoFile}
        /\ (pc[Loader] = "idle" /\ \A t \in Commands : pc[t] \in {"idle", "w_wait", "r_wait"})
           => /\ found[m] = "unread"
              /\ \A t \in Tasks : data[t] = NoFile /\ ret[t] = NoRet

\* A manager constructed where neither file nor directory exists has served a
\* read from the default document, before any load: nothing was created.
C29_Witness ==
    \E m \in scope : \E t \in Commands :
        /\ pc[Loader] = "idle"
        /\ file[m] = NoFile
        /\ ~dir_exists
        /\ op[t] \in Reads(m)
        /\ pc[t] = "done"
        /\ ret[t] = [status |-> "ok", val |-> Query(op[t], Default(m))]

(* -------------------------------------------------------------- queries *)
ReadKinds ==
    {"get_all_saved_capes", "get_saved_cape_by_id", "get_favorite_capes",
     "get_capes_by_tag", "get_config", "is_experimental_mode"}

\* The records at the indices in S, in the order of the catalog.
Pick(capes, S) ==
    [k \in 1..Cardinality(S) |->
        capes[CHOOSE i \in S : Cardinality({j \in S : j <= i}) = k]]

\* What a read operation is to return from the document d.
Answer(o, d) ==
    CASE o.kind = "get_all_saved_capes" -> d.capes
      [] o.kind = "get_saved_cape_by_id" ->
            IF HasId(d.capes, o.id)
            THEN Some(d.capes[CHOOSE i \in 1..Len(d.capes) : FirstWithId(d.capes, i, o.id)])
            ELSE None
      [] o.kind = "get_favorite_capes" ->
            Pick(d.capes, {i \in 1..Len(d.capes) : d.capes[i].favorite})
      [] o.kind = "get_capes_by_tag" ->
            Pick(d.capes, {i \in 1..Len(d.capes) : Count(d.capes[i].tags, o.tag) > 0})
      [] o.kind = "get_config" -> Some(d)
      [] o.kind = "is_experimental_mode" -> Some(d.is_experimental)

\* C30: no step of a read operation changes a document or a file; the value
\* returned is computed from the document as it stands at that step (all
\* records, the first record of the id, the favorites or the records with the
\* tag in catalog order, the configuration); and the value, once returned,
\* stays what it is whatever is done to the document afterwards.
C30_QueriesAreReadOnly ==
    [][\A t \in Commands :
          op'[t].kind \in ReadKinds
          => /\ pc'[t] # pc[t] => doc' = doc /\ file' = file
             /\ (pc[t] = "r_wait" /\ pc'[t] = "done")
                => ret'[t] = [status |-> "ok", val |-> Answer(op[t], doc[op[t].m])]
             /\ pc[t] = "done" => ret'[t] = ret[t]]_vars

\* get_favorite_capes returned the one favorite of the loaded catalog; a
\* toggle_favorite then made the other record a favorite in the catalog, and
\* the value returned before is as it was.
C30_Witness ==
    /\ found["cape"] = "document"
    /\ op[1] = [kind |-> "get_favorite_capes", m |-> "cape"]
    /\ ret[1] = [status |-> "ok", val |-> <<CapeB>>]
    /\ op[2] = [kind |-> "toggle_favorite", m |-> "cape", id |-> 1]
    /\ pc[2] = "done"
    /\ doc["cape"].capes = <<[CapeA EXCEPT !.favorite = TRUE], CapeB>>

(* ------------------------------------------------- the two managers *)
\* Both managers of the launcher state serve commands in one run; the
\* readiness callback of one of them runs.
\* The launcher directory of a first start (nothing there) or of an earlier
\* run (both files as that run saved them).
PairInit ==
    /\ scope = Managers
    /\ \/ /\ file = [m \in Managers |-> NoFile]
          /\ dir_exists = FALSE
       \/ /\ file = [m \in Managers |->
                       Serialize(m, IF m = "cape" THEN [capes |-> <<CapeA>>]
                                    ELSE [ConfigX EXCEPT !.version = 2])]
          /\ dir_exists = TRUE
    /\ InitManagers

PairSpec == PairInit /\ [][Next]_vars

PairFairSpec == PairSpec /\ \A t \in Tasks : WF_vars(Step(t))

\* Task u has returned the error of its persist.
PersistFailed(u) ==
    /\ pc[u] = "done"
    /\ ret[u].status = "err"
    /\ ~(u = Loader /\ found[op[u].m] = "unreadable")

\* C31: the step in which a persist of one manager fails changes neither the
\* document, the backing file, the document lock nor the save lock of the
\* other manager; and once a persist of one manager has failed, every
\* operation in flight on the other manager still returns.
C31_ManagersFailIndependently ==
    /\ [][\A t \in Tasks :
             PersistFails(t)
             => \A n \in Managers \ {op[t].m} :
                   /\ doc'[n] = doc[n]
                   /\ file'[n] = file[n]
                   /\ rw'[n] = rw[n]
                   /\ save_lock'[n] = save_lock[n]]_vars
    /\ \A t \in Tasks :
          (/\ pc[t] # "done"
           /\ \E u \in Tasks : PersistFailed(u) /\ op[t].m \notin {"none", op[u].m})
          ~> (pc[t] = "done")

\* An add_saved_cape has returned the error of its persist, the catalog file
\* is as it was found; a set_config has persisted and returned Ok, and the
\* configuration file holds the configuration in memory.
C31_Witness ==
    \E a, b \in Commands :
        /\ op[a] = [kind |-> "add_saved_cape", m |-> "cape", cape |-> CapeB]
        /\ PersistFailed(a)
        /\ file["cape"] \in InitFiles("cape")
        /\ op[b].kind = "set_config"
        /\ pc[b] = "done"
        /\ ret[b].status = "ok"
        /\ wseq[b] > 0
        /\ save_lock = [m \in Managers |-> MutexNew]
        /\ file["config"] = Serialize("config", doc["config"])

(* ------------------------------------------- commands after the load *)
\* The command layer serves commands once the readiness callback has
\* returned; from then on any number of them run at the same time.
ReadyCallMutation(t) == pc[Loader] = "done" /\ CallMutation(t)

ReadyCallRead(t) == pc[Loader] = "done" /\ CallRead(t)

ReadyNext ==
    \E t \in Tasks :
        \/ CallLoad(t)
        \/ ReadyCallMutation(t)
        \/ ReadyCallRead(t)
        \/ Step(t)

ReadySpec == Init /\ [][ReadyNext]_vars

\* C32: the load step has returned Ok and every command invoked since has
\* returned without a failed persist: the backing file is the serialization
\* of the document in memory, in whatever order the persists ran.
C32_FileMatchesDocumentWhenSettled ==
    \A m \in Managers :
        (/\ LoadReturned(m, found[m])
         /\ ret[Loader].status = "ok"
         /\ \A t \in Commands : pc[t] \in {"idle", "done"} /\ ret[t].status # "err")
        => file[m] = Serialize(m, doc[m])

\* After the load, two mutations that both changed the document ran at the
\* same time and persisted in the opposite order of their commits; both have
\* returned Ok and the file is the serialization of the document.
C32_Witness ==
    \E a, b \in Commands : \E m \in Managers :
        /\ LoadReturned(m, found[m]) /\ ret[Loader].status = "ok"
        /\ Mutates(a, m) /\ Mutates(b, m)
        /\ pc[a] = "done" /\ pc[b] = "done"
        /\ ret[a].status = "ok" /\ ret[b].status = "ok"
        /\ 0 < cseq[a] /\ cseq[a] < cseq[b]
        /\ 0 < wseq[b] /\ wseq[b] < wseq[a]
        /\ file[m] = Serialize(m, doc[m])
        /\ doc[m] # Default(m)

(* ------------------------------------------- mutations during the load *)
\* Document d shows what the mutating operation o does: the record added, no
\* record of the id removed, the record updated as supplied, the tag present
\* or gone, the settings replaced.
Shows(d, o) ==
    CASE o.kind = "add_saved_cape" -> \E i \in 1..Len(d.capes) : d.capes[i] = o.cape
      [] o.kind = "remove_saved_cape" -> \A i \in 1..Len(d.capes) : d.capes[i].id # o.id
      [] o.kind = "update_saved_cape_properties" ->
            \E i \in 1..Len(d.capes) :
                FirstWithId(d.capes, i, o.id) /\ d.capes[i] = Updated(d.capes[i], o)
      [] o.kind = "add_tag_to_cape" ->
            \E i \in 1..Len(d.capes) :
                FirstWithId(d.capes, i, o.id) /\ Count(d.capes[i].tags, o.tag) > 0
      [] o.kind = "remove_tag_from_cape" ->
            \E i \in 1..Len(d.capes) :
                FirstWithId(d.capes, i, o.id) /\ Count(d.capes[i].tags, o.tag) = 0
      [] o.kind = "set_config" -> EqualButVersion(d, o.new_config)

\* C33 (as stated): a mutation that committed after the load step read the
\* backing file and before the load step replaced the document is not lost:
\* when the load and every command have returned Ok and no command committed
\* after it, the document shows the mutation's effect and the file is the
\* serialization of the document.
C33_MutationDuringLoadSurvives ==
    \A t \in Commands :
        (/\ raced[t]
         /\ op[t].kind # "toggle_favorite"
         /\ Settled
         /\ \A u \in Tasks : ret[u].status # "err"
         /\ \A u \in Commands : cseq[u] <= cseq[t])
        => /\ Shows(doc[op[t].m], op[t])
           /\ file[op[t].m] = Serialize(op[t].m, doc[op[t].m])

(* ---------------------------------------------- set_config and the file *)
\* C34 (as stated): whenever set_config returns Ok while no other operation
\* is running, the backing file holds the configuration that is in memory;
\* so a set_config repeated with the same record after a failed persist
\* writes that record before it returns Ok.
C34_SetConfigOkMeansPersisted ==
    [][\A t \in Commands :
          (/\ op[t].kind = "set_config"
           /\ pc[t] # "done" /\ pc'[t] = "done"
           /\ ret'[t].status = "ok"
           /\ \A u \in Tasks \ {t} : pc'[u] \in {"idle", "done"})
          => file'["config"] = Serialize("config", doc'["config"])]_vars

(* ------------------------------------------ what the file holds on return *)
\* C35: when a mutating operation that changed the document returns Ok, the
\* file holds a document serialized at or after that operation's commit, and
\* the document as it stands if nothing was committed since.  (Every
\* successful write puts the document of the latest commit into the file.)
C35_FileNotOlderThanCommit ==
    [][\A t \in Commands :
          LET m == op[t].m IN
          /\ (IsMutation(op[t]) /\ WriteSucceeds(t))
             => /\ file'[m] = Serialize(m, doc[m])
                /\ fver'[m] = ver[m]
          /\ (/\ IsMutation(op[t]) /\ cseq[t] > 0
              /\ pc[t] # "done" /\ pc'[t] = "done"
              /\ ret'[t].status = "ok")
             => /\ fver'[m] >= cseq[t]
                /\ ver'[m] = cseq[t] => file'[m] = Serialize(m, doc'[m])]_vars

\* Two mutations committed one after the other; the first has persisted and
\* returned Ok while the second still waits for the save lock: the file holds
\* the document of the second commit.
C35_Witness ==
    \E a, b \in Commands : \E m \in Managers :
        /\ Mutates(a, m) /\ Mutates(b, m)
        /\ 0 < cseq[a] /\ cseq[a] < cseq[b]
        /\ pc[a] = "done" /\ ret[a].status = "ok"
        /\ pc[b] = "s_wait"
        /\ fver[m] = cseq[b]
        /\ file[m] = Serialize(m, doc[m])
        /\ doc[m] = serial[m]

(* ------------------------------------------ the presence notifier's view *)
\* The configuration manager alone, commands after the load, with a global
\* state that is available and a notifier whose set_enabled succeeds.
NotifyOk(t) ==
    /\ Notify(t)
    /\ notified'[t]
    /\ discord' = Some(op[t].new_config.enable_discord_presence)

PresenceInit ==
    /\ scope = {"config"}
    /\ InitDisk
    /\ InitManagers

PresenceNext ==
    \E t \in Tasks :
        \/ CallLoad(t)
        \/ ReadFileDone(t)
        \/ LoadReplace(t)
        \/ ReadyCallMutation(t)
        \/ SetConfig(t)
        \/ SaveRequest(t)
        \/ SaveGranted(t)
        \/ MkdirDone(t)
        \/ SaveSerialize(t)
        \/ WriteDone(t)
        \/ NotifyOk(t)

PresenceSpec == PresenceInit /\ [][PresenceNext]_vars

\* C36 (as stated): when the set_config calls have all returned, no operation
\* with an error, and the notifier was called (always with success), the
\* value the notifier was given last is enable_discord_presence of the
\* configuration in memory.
C36_NotifierMatchesFinalConfig ==
    (/\ Settled
     /\ \A t \in Tasks : ret[t].status # "err"
     /\ \E t \in Commands : notified[t])
    => discord = Some(doc["config"].enable_discord_presence)

(* ----------------------------------------------- the load's repair save *)
\* C37 (as stated): when the load step, having read a file serde_json cannot
\* parse, writes the file and returns, the file holds the serialized default
\* document and the document in memory is the default document, whatever
\* was in memory when the load was invoked.
C37_DecodeFailureRestoresDefault ==
    [][\A m \in Managers :
          (op[Loader].m = m /\ found[m] = "corrupt" /\ WriteSucceeds(Loader))
          => /\ pc'[Loader] = "done"
             /\ file'[m] = Serialize(m, Default(m))
             /\ doc'[m] = Default(m)]_vars

(* ------------------------------------------ the notifier and the persist *)
\* C38: the presence notifier is called, and the value it holds changed,
\* only in a step of a set_config whose save has written the file and
\* released the save lock; and the step in which the persist of a set_config
\* fails ends the call with the error, without a callout, while the
\* configuration in memory keeps the new settings (if no commit followed).
C38_NotifierAfterPersist ==
    [][/\ (notified' # notified \/ discord' # discord)
          => \E t \in Commands :
                /\ op[t].kind = "set_config"
                /\ pc[t] = "notify" /\ pc'[t] = "done"
                /\ wseq[t] > 0
                /\ save_lock["config"].holder # t
       /\ \A t \in Commands :
             (op[t].kind = "set_config" /\ PersistFails(t))
             => /\ pc'[t] = "done"
                /\ ret'[t].status = "err"
                /\ ~notified'[t]
                /\ discord' = discord
                /\ cseq[t] = ver["config"]
                   => [doc'["config"] EXCEPT !.version = op[t].new_config.version]
                         = op[t].new_config]_vars

\* A set_config has returned the error of its persist: the notifier was not
\* called and holds no value, the configuration in memory has the new
\* settings, the file has not.
C38_Witness ==
    \E t \in Commands :
        /\ op[t] = [kind |-> "set_config", m |-> "config", new_config |-> ConfigY]
        /\ pc[t] = "done"
        /\ ret[t].status = "err"
        /\ ~notified[t]
        /\ discord = None
        /\ doc["config"].enable_discord_presence = FALSE
        /\ doc["config"].hooks.wrapper = Some("w")
        /\ file["config"] # Serialize("config", doc["config"])

(* ------------------------------------------------------------- removal *)
\* C39: remove_saved_cape leaves the records of other ids, in their order,
\* and no record of the id.  If the catalog held the id it goes on to its
\* save with the result true, and it returns Ok(true) only after a write of
\* the file; otherwise it returns Ok(false) at once and nothing is written.
C39_RemoveSavedCape ==
    [][\A t \in Commands :
          /\ Runs(t, "remove_saved_cape")
             => LET old == doc["cape"].capes
                    kept == {i \in 1..Len(old) : old[i].id # op[t].id}
                IN  /\ doc'["cape"].capes = Pick(old, kept)
                    /\ file' = file
                    /\ IF HasId(old, op[t].id)
                       THEN pc'[t] = "s_call" /\ ret'[t].val = <<TRUE>>
                       ELSE /\ pc'[t] = "done"
                            /\ ret'[t] = [status |-> "ok", val |-> <<FALSE>>]
                            /\ doc' = doc
          /\ (op[t].kind = "remove_saved_cape" /\ pc[t] # "done" /\ pc'[t] = "done")
             => /\ ret'[t].val = ret[t].val \/ pc[t] = "w_wait"
                /\ (ret'[t].status = "ok" /\ ret'[t].val = <<TRUE>>) => wseq'[t] > 0
                /\ ret'[t].val = <<FALSE>> => wseq'[t] = 0 /\ ret'[t].status = "ok"]_vars

\* The loaded catalog held two records of id 1; remove_saved_cape(1) has
\* returned Ok(true), the catalog is empty and so is the catalog in the file;
\* a second remove_saved_cape(1) has returned Ok(false) without a write.
C39_Witness ==
    /\ found["cape"] = "document"
    /\ op[1] = [kind |-> "remove_saved_cape", m |-> "cape", id |-> 1]
    /\ op[2] = op[1]
    /\ ret[1] = [status |-> "ok", val |-> <<TRUE>>]
    /\ ret[2] = [status |-> "ok", val |-> <<FALSE>>]
    /\ pc[2] = "done"
    /\ wseq[1] > 0 /\ wseq[2] = 0
    /\ ver["cape"] = 2
    /\ doc["cape"].capes = <<>>
    /\ file["cape"] = Serialize("cape", CapeDatabaseDefault)

(* ------------------------------------------------- keyed mutations' frame *)
EditKinds ==
    {"update_saved_cape_properties", "toggle_favorite", "add_tag_to_cape",
     "remove_tag_from_cape"}

\* C40: no step of update_saved_cape_properties, toggle_favorite,
\* add_tag_to_cape or remove_tag_from_cape changes the number of records or
\* the id at any place of the catalog, and the only record such a step may
\* change is the first one of the operation's id.
C40_EditsTouchOneRecord ==
    [][\A t \in Commands :
          (op[t].kind \in EditKinds /\ pc'[t] # pc[t])
          => LET old == doc["cape"].capes
                 new == doc'["cape"].capes
             IN  /\ Len(new) = Len(old)
                 /\ \A i \in 1..Len(old) :
                       /\ new[i].id = old[i].id
                       /\ new[i] # old[i] => FirstWithId(old, i, op[t].id)]_vars

\* The loaded catalog holds two records of id 1; toggle_favorite(1) and
\* add_tag_to_cape(1, "x") have changed the first and left the second as it
\* was loaded.
C40_Witness ==
    /\ found["cape"] = "document"
    /\ op[1] = [kind |-> "toggle_favorite", m |-> "cape", id |-> 1]
    /\ op[2] = [kind |-> "add_tag_to_cape", m |-> "cape", id |-> 1, tag |-> "x"]
    /\ pc[1] = "done" /\ pc[2] = "done"
    /\ doc["cape"].capes =
          <<[CapeA EXCEPT !.favorite = TRUE, !.tags = <<"x">>], CapeA2>>

====
